---- MODULE Spec2Model ----
(***************************************************************************)
(* Ghauri inference engine (ghauri/core/extract.py): GhauriExtractor.      *)
(* Characters are modelled by their ordinals, the empty string "" returned *)
(* by a character search by the ordinal 0, strings by sequences of         *)
(* ordinals.                                                               *)
(*                                                                         *)
(* SpecSearch runs one _char_* method probe by probe, under retry_request. *)
(* Spec runs fetch_characters; there a _char_* call is one step, RunSearch,*)
(* built from the same loop body (Searching, Iterate, SearchResult);       *)
(* SummaryAgrees states under SpecSearch that both return the same.        *)
(***************************************************************************)
EXTENDS Integers, Sequences, FiniteSets, TLC

\* ------------------------------------------------------------------ bounds
MaxLen == 3            \* longest value the queried expression evaluates to
MaxSpan == 3           \* widest extra [min_ord, max_ord] range of a direct call
MaxPayloads == 1       \* payloads handed to one call
MaxCodes == 1          \* longest conf.ignore_code list
MaxThreads == 12       \* largest number of threads asked for
MaxDumps == 3          \* session.dump calls on tbl_payload in one run
MaxChars == 3          \* longest payload handed to a tamper

\* ------------------------------------------------------- program constants
max_attempts == 4      \* retry_network(max_attempts=4)
MinOrd == 32           \* min_ord default of the _char_* methods
MaxOrd == 127          \* max_ord default of the _char_* methods
DigitMin == 48         \* min_ord of the length-digit search
DigitMax == 57         \* max_ord of the length-digit search
retry == 3             \* conf.retry
MAX_RETRIES == 5       \* inject.py
max_threads == 10      \* GhauriConfig._max_threads
NocMax == 10           \* range(1, 11) of phase 1 of _get_output_length

NoneV == "None"
DumpKey == "current_db"

\* SearchStrategy members, in declaration order
Strategies == <<"BINARY_GT", "BETWEEN", "IN_OPERATOR", "LINEAR_EQ">>

\* The comparison operator each strategy renders into its probes
\* (replace_with(cond, "=", ...) of the _char_* methods).
OpOf(strategy) ==
    CASE strategy = "BINARY_GT"   -> ">"
      [] strategy = "BETWEEN"     -> "NOT BETWEEN"
      [] strategy = "IN_OPERATOR" -> "IN"
      [] OTHER                    -> "="

\* probes list of probe_operator
probes ==
    << [strategy |-> "BINARY_GT",   inference |-> "6590>6420"],
       [strategy |-> "BETWEEN",     inference |-> "6590 NOT BETWEEN 0 AND 6420"],
       [strategy |-> "IN_OPERATOR", inference |-> "(SELECT 45) IN (10,45,60)"],
       [strategy |-> "LINEAR_EQ",   inference |-> "09845=9845"] >>

\* name_map of probe_operator
name_map(forced) ==
    CASE forced = "binary"  -> "BINARY_GT"
      [] forced = "between" -> "BETWEEN"
      [] forced = "in"      -> "IN_OPERATOR"
      [] forced = "equal"   -> "LINEAR_EQ"
      [] OTHER              -> NoneV

Range(a, b) == [i \in 1..(b - a + 1) |-> a + i - 1]

\* char_list default of _char_linear:
\* " ._-@1234567890abcdefghijklmnopqrstuvwxyzABCDEFGHIJKLMNOPQRSTUVWXYZ"
char_list ==
    <<32, 46, 95, 45, 64>> \o Range(49, 57) \o <<48>> \o Range(97, 122) \o Range(65, 90)

\* ------------------------------------------------------------ the target
\* str(n) for n >= 0, as ordinals of its decimal digits
RECURSIVE Digits(_)
Digits(n) == IF n < 10 THEN <<48 + n>> ELSE Append(Digits(n \div 10), 48 + (n % 10))

\* int(s) for a string of decimal digits
RECURSIVE IntOf(_)
IntOf(s) ==
    IF s = <<>> THEN 0
    ELSE 10 * IntOf(SubSeq(s, 1, Len(s) - 1)) + (s[Len(s)] - 48)

\* ordinal of the character of s at a 1-based position; 0 past the end
CharAt(s, position) == IF position \in 1..Len(s) THEN s[position] ELSE 0

IsPrefix(p, s) == Len(p) <= Len(s) /\ SubSeq(s, 1, Len(p)) = p


\* ------------------------------------------------------------ input sets
Alphabet == {32, 116}

RECURSIVE SeqsUpTo(_)
SeqsUpTo(n) ==
    IF n = 0 THEN {<<>>}
    ELSE LET shorter == SeqsUpTo(n - 1)
         IN  shorter \cup {Append(s, c) : s \in {t \in shorter : Len(t) = n - 1}, c \in Alphabet}

\* Sequences over S of length at most n
RECURSIVE SeqsOf(_, _)
SeqsOf(S, n) ==
    IF n = 0 THEN {<<>>}
    ELSE LET shorter == SeqsOf(S, n - 1)
         IN  shorter \cup {Append(q, c) : q \in {t \in shorter : Len(t) = n - 1}, c \in S}

Values == SeqsUpTo(MaxLen)

Ops == {">", "NOT BETWEEN", "IN", "="}
FetchUsing == {NoneV, "binary", "between", "in", "equal"}
DirectRanges ==
    {<<MinOrd, MaxOrd>>, <<DigitMin, DigitMax>>}
        \cup {<<a, b>> \in (60..(60 + MaxSpan)) \X (60..(60 + MaxSpan)) : a <= b}
DirectChars == {0} \cup (MinOrd..(MaxOrd + 1))

\* ------------------------------------------------------------------ state
VARIABLES
    pc,        \* control point of the running call
    conf,      \* ghauri.common.config.conf: the fields fetch_characters reads
    call,      \* arguments of the running call
    target,    \* the endpoint: the value of the queried expression and what it filters
    storage,   \* the row of the storage table whose type is the dump_type in use
    gl,        \* locals of _get_output_length
    po,        \* locals of probe_operator and of its retry wrapper
    fc,        \* locals of fetch_characters and _try_error_based
    srch,      \* locals of a _char_* method called alone, and of its retry wrapper
    ret,       \* value the last _char_* call returned (0 is "")
    result,    \* what the call returned or raised
    ie,        \* locals of inject_expression
    dt,        \* locals of test_and_confirm_injection and the functions it calls
    fp,        \* locals of FingerPrintDBMS.fingerprint
    tc,        \* locals of apply_tamper_chain
    db,        \* the session database: tbl_payload
    cmp,       \* arguments and results of the response oracle
    tm,        \* locals of a tamper's tamper method, called twice on one payload
    obs        \* history of the running call: requests sent, storage as it started

vars == <<pc, conf, call, target, storage, gl, po, fc, srch, ret, result, obs, ie, dt, fp, tc, db, cmp, tm>>

NoRow == [present |-> FALSE, value |-> <<>>, length |-> 0]
Row(value, length) == [present |-> TRUE, value |-> value, length |-> length]

\* CharResult(success, value, strategy, error, resumed); kind tells a returned
\* CharResult from an exception that left the call
CharResult(success, value, strategy, error, resumed) ==
    [kind |-> "CharResult", success |-> success, value |-> value,
     strategy |-> strategy, error |-> error, resumed |-> resumed]
Raised(exc, message) ==
    [kind |-> exc, success |-> FALSE, value |-> <<>>,
     strategy |-> NoneV, error |-> message, resumed |-> FALSE]
NoResult == Raised("none", "")

NoSearch ==
    [fn |-> NoneV, subject |-> NoneV, offset |-> 0,
     min_ord |-> 0, max_ord |-> 0, lo |-> 0, hi |-> 0, candidates |-> <<>>,
     i |-> 0, found |-> 0, vector_type |-> NoneV, attempt |-> 0, probes |-> 0]
NoGl == [noc |-> 0, working_noc_query |-> 0, len_tpl |-> 0, pos |-> 0,
         length_str |-> <<>>]
NoPo == [i |-> 0, attempt |-> 0]
NoFc == [length |-> 0, strategy |-> NoneV, forced |-> FALSE, chars |-> <<>>, pos |-> 0]
NoIe == [attempt |-> 0, log |-> <<>>, outcome |-> NoneV, status |-> 0, exc |-> NoneV]

\* A value of conf.ignore_code: the string of the command line ("", "*" or
\* integers separated by commas, kept as the sequence of those integers), or
\* a list of integers assigned by a caller
Str(star, items) == [type |-> "str", star |-> star, items |-> items]
List(items) == [type |-> "list", star |-> FALSE, items |-> items]

NoDt == [rows |-> NoneV, techniques |-> {}, response_time |-> 0,
         bool_check_on_ct |-> FALSE, is_resumed |-> FALSE,
         is_parameter_tested |-> FALSE, stages |-> <<>>,
         is_error |-> FALSE, is_bool |-> FALSE, is_time |-> FALSE,
         test_cases |-> 0, i |-> 0, results |-> 0, mismatch |-> 0,
         bool_confirm |-> NoneV, is_confirmed |-> FALSE, sqlis |-> <<>>,
         saved |-> <<>>, outcome |-> NoneV,
         same_length |-> TRUE, stable |-> TRUE, text_only |-> FALSE,
         is_dynamic |-> FALSE, breakers |-> 0, possible_dbms |-> NoneV,
         prioritize |-> FALSE, vectors |-> {}]

\* FingerprintResult; confidence in hundredths
FingerprintResult(dbms, confidence, method) ==
    [dbms |-> dbms, confidence |-> confidence, method |-> method]

\* No tamper method was called
NoTm == [tamper |-> NoneV, payload |-> <<>>, returned |-> <<>>]

NoFp == [attacks |-> FALSE, k |-> 1, result |-> NoneV, returned |-> NoneV, log |-> <<>>]

\* payload strings are opaque; confidence in hundredths; user_selected None
\* or empty is <<>>
NoTc == [payload |-> "", stage |-> NoneV, technique_type |-> NoneV,
         user_selected |-> <<>>, chain |-> <<>>, i |-> 0, current |-> "",
         applied |-> <<>>, confidence |-> 100, outcome |-> NoneV]

\* A row of tbl_payload: the columns the model follows
PayloadRow(id, endpoint, parameter, payload_type) ==
    [id |-> id, endpoint |-> endpoint, parameter |-> parameter, payload_type |-> payload_type]

\* schema: whose CREATE TABLE made the file; seq: the AUTOINCREMENT counter;
\* dumps, last: the session.dump calls so far and the values of the last one
NoDb == [schema |-> NoneV, rows |-> <<>>, seq |-> 0, error |-> NoneV, dumps |-> 0,
         last |-> PayloadRow(0, NoneV, NoneV, NoneV)]

\* A response as the oracle sees it: status, content length, and similarity
\* of its filtered body to the baseline's (hundredths)
Resp(status, len, sim) == [status |-> status, len |-> len, sim |-> sim]

\* Result of the oracle
Compared(vulnerable, case) == [vulnerable |-> vulnerable, case |-> case]

NoCmp == [B |-> Resp(0, 0, 0), T |-> Resp(0, 0, 0), F |-> Resp(0, 0, 0), text_only |-> FALSE,
          forward |-> Compared(FALSE, NoneV), swapped |-> Compared(FALSE, NoneV)]

NoWrite == [via |-> NoneV, upto |-> 0, length |-> 0]
NoObs == [sent |-> {}, probed |-> {}, store0 |-> NoRow, wrote |-> FALSE,
          opLog |-> <<>>, exhausted |-> 0, written |-> NoWrite, prev |-> NoResult,
          leaked |-> {}, calls |-> <<>>]

\* ------------------------------------------------------------ the oracle
\* The page a truthful endpoint answers a request with whose condition has
\* comparison operator op and truth value truth: a filtered operator always
\* yields the false page.
Verdict(op, truth) == op \notin target.filtered /\ truth

\* An endpoint of mode "any" answers an unfiltered request arbitrarily.
Verdicts(op, truth) ==
    IF target.mode = "any" /\ op \notin target.filtered THEN BOOLEAN
    ELSE {Verdict(op, truth)}

\* The constant-true probes of probe_operator: a filtered operator yields the
\* false page, any other probe may still be judged either way.
OpVerdicts(op) == IF op \in target.filtered THEN {FALSE} ELSE BOOLEAN

\* is_true / vulnerable of the _char_* methods, probe_operator and
\* _get_output_length
is_true(vector_type, attack01, verdict) ==
    IF vector_type = "boolean" /\ attack01 THEN verdict
    ELSE IF vector_type = "time" THEN verdict
    ELSE FALSE

\* vector_type or "boolean"
OrBoolean(vector_type) == IF vector_type = NoneV THEN "boolean" ELSE vector_type

\* The string a _char_* call reads: the decimal length of the value during
\* length discovery, the value itself otherwise.
Subject(subject) == IF subject = "length" THEN Digits(Len(target.value)) ELSE target.value

\* ------------------------------------------------- the _char_* methods
\* Entry of a _char_* method under retry_request: its locals before the loop.
NewSearch(fn, subject, offset, min_ord, max_ord, vector_type, attempt) ==
    [fn |-> fn, subject |-> subject, offset |-> offset,
     min_ord |-> min_ord, max_ord |-> max_ord,
     lo |-> min_ord, hi |-> max_ord,
     candidates |-> IF fn = "in" THEN Range(min_ord, max_ord) ELSE <<>>,
     i |-> 1, found |-> 0, vector_type |-> vector_type,
     attempt |-> attempt, probes |-> 0]

\* mid = (lo + hi) // 2
Mid(lo, hi) == (lo + hi) \div 2

\* BinaryUpdate with the upper end kept at mid: hi = mid
BinaryUpdate_KeepMid(s, mid, t) ==
    IF t THEN [s EXCEPT !.lo = mid + 1, !.probes = @ + 1]
    ELSE [s EXCEPT !.hi = mid, !.probes = @ + 1]

\* if is_true: lo = mid + 1 else: hi = mid - 1
BinaryUpdate(s, mid, t) ==
    IF t THEN [s EXCEPT !.lo = mid + 1, !.probes = @ + 1]
    ELSE [s EXCEPT !.hi = mid - 1, !.probes = @ + 1]

\* ch = chr(lo - 1) if lo > min_ord else ""
BinaryResult(lo, min_ord) == IF lo > min_ord THEN lo - 1 ELSE 0

\* chunk_size with the chunk one candidate long
chunk_size_One(candidates) == 1

\* chunk_size = max(1, len(candidates) // 2)
chunk_size(candidates) ==
    IF Len(candidates) \div 2 >= 1 THEN Len(candidates) \div 2 ELSE 1

\* InUpdate with the false branch dropping one candidate more than the chunk
InUpdate_Strict(s, t) ==
    LET n == chunk_size(s.candidates)
    IN  IF t THEN [s EXCEPT !.candidates = SubSeq(@, 1, n), !.probes = @ + 1]
        ELSE [s EXCEPT !.candidates = SubSeq(@, n + 2, Len(@)), !.probes = @ + 1]

\* if is_true: candidates = chunk else: candidates = candidates[chunk_size:]
InUpdate(s, t) ==
    LET n == chunk_size(s.candidates)
    IN  IF t THEN [s EXCEPT !.candidates = SubSeq(@, 1, n), !.probes = @ + 1]
        ELSE [s EXCEPT !.candidates = SubSeq(@, n + 1, Len(@)), !.probes = @ + 1]

\* return chr(candidates[0]) if candidates else ""
InResult(candidates) == IF candidates # <<>> THEN candidates[1] ELSE 0

\* if is_true: return ch; otherwise the next character of char_list
LinearUpdate(s, t) ==
    IF t THEN [s EXCEPT !.found = char_list[s.i], !.probes = @ + 1]
    ELSE [s EXCEPT !.i = @ + 1, !.probes = @ + 1]

InSeq(x, s) == \E k \in 1..Len(s) : s[k] = x

\* The loop condition of a _char_* method with locals s
Searching(s) ==
    CASE s.fn \in {"binary", "between"} -> s.lo <= s.hi
      [] s.fn = "in"                    -> Len(s.candidates) > 1
      [] s.fn = "linear"                -> s.found = 0 /\ s.i <= Len(char_list)
      [] OTHER                          -> FALSE

\* The comparison operator of the condition the method renders
ProbeOp(s) ==
    CASE s.fn = "binary"  -> OpOf("BINARY_GT")
      [] s.fn = "between" -> OpOf("BETWEEN")
      [] s.fn = "in"      -> OpOf("IN_OPERATOR")
      [] OTHER            -> OpOf("LINEAR_EQ")

\* The truth value, on the endpoint's database, of the condition the method
\* renders in its next iteration
ProbeTruth(s) ==
    LET c == CharAt(Subject(s.subject), s.offset)
    IN  CASE s.fn = "binary"  -> c > Mid(s.lo, s.hi)
          [] s.fn = "between" -> ~(0 <= c /\ c <= Mid(s.lo, s.hi))
          [] s.fn = "in"      -> InSeq(c, SubSeq(s.candidates, 1, chunk_size(s.candidates)))
          [] OTHER            -> c = char_list[s.i]

\* One iteration of the method's loop, its probe judged t
Iterate(s, t) ==
    CASE s.fn \in {"binary", "between"} -> BinaryUpdate(s, Mid(s.lo, s.hi), t)
      [] s.fn = "in"                    -> InUpdate(s, t)
      [] OTHER                          -> LinearUpdate(s, t)

\* The value the method returns once its loop has ended
SearchResult(s) ==
    CASE s.fn \in {"binary", "between"} -> BinaryResult(s.lo, s.min_ord)
      [] s.fn = "in"                    -> InResult(s.candidates)
      [] OTHER                          -> s.found

\* The method's loop run to its end against a truthful endpoint
RECURSIVE RunSearch(_)
RunSearch(s) ==
    IF Searching(s)
    THEN RunSearch(Iterate(s, is_true(s.vector_type, call.attack01,
                                      Verdict(ProbeOp(s), ProbeTruth(s)))))
    ELSE s

\* One iteration of the loop of a _char_* method called alone
SearchStep ==
    /\ pc = "search"
    /\ Searching(srch)
    /\ \E v \in Verdicts(ProbeOp(srch), ProbeTruth(srch)) :
           srch' = Iterate(srch, is_true(srch.vector_type, call.attack01, v))
    /\ UNCHANGED <<pc, conf, call, target, storage, gl, po, fc, ret, result, obs>>
    /\ UNCHANGED ie
    /\ UNCHANGED dt
    /\ UNCHANGED fp
    /\ UNCHANGED tc
    /\ UNCHANGED db
    /\ UNCHANGED cmp
    /\ UNCHANGED tm

\* The loop has ended: the method returns
SearchReturn ==
    /\ pc = "search"
    /\ ~Searching(srch)
    /\ ret' = SearchResult(srch)
    /\ pc' = "done"
    /\ UNCHANGED <<conf, call, target, storage, gl, po, fc, srch, result, obs>>
    /\ UNCHANGED ie
    /\ UNCHANGED dt
    /\ UNCHANGED fp
    /\ UNCHANGED tc
    /\ UNCHANGED db
    /\ UNCHANGED cmp
    /\ UNCHANGED tm

\* Retried with every exception caught by the wrapper
Retried_Any(exc, attempt) == attempt < max_attempts

\* inject_expression raises instead of returning a response. retry_network
\* catches (ConnectionError, TimeoutError, OSError) and calls the method again
\* from its start, max_attempts times in all; anything else leaves the call.
Retried(exc, attempt) == exc = "OSError" /\ attempt < max_attempts

SearchFail ==
    /\ pc = "search"
    /\ Searching(srch)
    /\ \E exc \in {"OSError", "RuntimeError"} :
        IF Retried(exc, srch.attempt)
        THEN /\ srch' = NewSearch(srch.fn, srch.subject, srch.offset,
                                  srch.min_ord, srch.max_ord, srch.vector_type,
                                  srch.attempt + 1)
             /\ UNCHANGED <<pc, result>>
        ELSE /\ result' = Raised(exc, "inject_expression")
             /\ pc' = "done"
             /\ srch' = srch
    /\ UNCHANGED <<conf, call, target, storage, gl, po, fc, ret, obs>>
    /\ UNCHANGED ie
    /\ UNCHANGED dt
    /\ UNCHANGED fp
    /\ UNCHANGED tc
    /\ UNCHANGED db
    /\ UNCHANGED cmp
    /\ UNCHANGED tm

\* ------------------------------------------ a _char_* method called alone
NoConf == [fetch_using |-> NoneV, fresh_queries |-> FALSE, threads |-> 0,
           error_vector |-> FALSE, ignore_code |-> Str(FALSE, <<>>)]
NoCall == [entry |-> NoneV, dump_type |-> NoneV, vector_type |-> NoneV,
           attack01 |-> FALSE, backend |-> NoneV, payloads |-> 0, vector |-> <<>>]

\* _char_linear takes no ordinal range; an endpoint of mode "any" answers
\* whatever the value is.
DirectCalls ==
    {<<fn, r>> : fn \in {"binary", "between", "in"}, r \in DirectRanges}
        \cup {<<"linear", <<MinOrd, MaxOrd>>>>}
DirectTargets ==
    {[value |-> IF c = 0 THEN <<>> ELSE <<c>>, filtered |-> {}, mode |-> "truthful"] :
        c \in DirectChars}
        \cup {[value |-> <<>>, filtered |-> {}, mode |-> "any"]}

InitSearch ==
    /\ pc = "search"
    /\ conf = NoConf
    /\ target \in DirectTargets
    /\ \E d \in DirectCalls, vt \in {"boolean", "time"} :
           /\ call = [NoCall EXCEPT !.entry = d[1], !.vector_type = vt, !.attack01 = TRUE]
           /\ srch = NewSearch(d[1], "value", 1, d[2][1], d[2][2], vt, 1)
    /\ storage = NoRow
    /\ gl = NoGl /\ po = NoPo /\ fc = NoFc
    /\ ret = 0 /\ result = NoResult /\ obs = NoObs
    /\ ie = NoIe /\ dt = NoDt
    /\ fp = NoFp /\ tc = NoTc /\ db = NoDb /\ cmp = NoCmp
    /\ tm = NoTm

NextSearch == SearchStep \/ SearchReturn \/ SearchFail

SpecSearch == InitSearch /\ [][NextSearch]_vars

\* ------------------------------------------------------ rendering
\* A vector template or an expression is a sequence of pieces of text, each a
\* placeholder or text without one.
Placeholders == {"[INFERENCE]", "[SLEEPTIME]", "[RANDNUM]"}

\* text.replace(old, new), old a placeholder
Replace(text, old, new) == [i \in DOMAIN text |-> IF text[i] = old THEN new ELSE text[i]]

\* vector.replace("[INFERENCE]", cond).replace("[SLEEPTIME]", str(timesec)) of
\* probe_operator and of phase 1 of _get_output_length
RenderProbe(vector) == Replace(Replace(vector, "[INFERENCE]", "cond"), "[SLEEPTIME]", "5.0")

\* vector.replace("[INFERENCE]", cond) of the _char_* methods
RenderChar(vector) == Replace(vector, "[INFERENCE]", "cond")

\* conf.vectors["error_vector"]
error_vector == <<"AND EXTRACTVALUE(0,CONCAT(0x7e,", "[INFERENCE]", "))">>

\* The expression handed to inject_expression by a request of the given kind
Expression(kind) ==
    CASE kind \in {"noc", "operator"} -> RenderProbe(call.vector)
      [] kind \in {"digit", "char"}   -> RenderChar(call.vector)
      [] OTHER                        -> Replace(error_vector, "[INFERENCE]", "payload")

\* The placeholders an expression still contains
Left(expr) == {expr[i] : i \in DOMAIN expr} \cap Placeholders

\* History: a request of the given kind was handed to inject_expression
Handed(o, kind) ==
    [o EXCEPT !.sent = @ \cup {kind}, !.leaked = @ \cup Left(Expression(kind))]

\* History: one more call of a _char_* method for the character at position
Called(calls, position) ==
    [p \in DOMAIN calls \cup {position} |->
        IF p = position
        THEN (IF p \in DOMAIN calls THEN calls[p] ELSE 0) + 1
        ELSE calls[p]]

\* ------------------------------------------------------- fetch_characters
\* NUMBER_OF_CHARACTERS_PAYLOADS.get(backend, []): how many templates
NocTemplates(backend) ==
    CASE backend = "MySQL" -> 2
      [] backend \in {"Oracle", "Microsoft SQL Server", "PostgreSQL"} -> 1
      [] OTHER -> 0

\* The char-at templates of the backend used for the length digits: how many
LenTemplates(backend) ==
    IF backend \in {"MySQL", "Oracle", "Microsoft SQL Server", "PostgreSQL"} THEN 2 ELSE 0

\* A number-of-characters probe for k holds on the database iff len(Q) = k
NocTruth(k) == Len(target.value) = k

\* Phase 1 of _get_output_length: the first pos of range(1, 11) whose probe is
\* judged vulnerable, 0 when there is none or nothing to send
FirstNoc ==
    LET hits == {k \in 1..NocMax :
                    is_true(OrBoolean(call.vector_type), call.attack01,
                            Verdict("=", NocTruth(k)))}
    IN  IF NocTemplates(call.backend) = 0 \/ call.payloads = 0 \/ hits = {} THEN 0
        ELSE CHOOSE k \in hits : \A j \in hits : k <= j

\* UsesStorage with conf.fresh_queries left out of the test
UsesStorage_AnyDump == call.dump_type # NoneV

\* dump_type and not conf.fresh_queries
UsesStorage == call.dump_type # NoneV /\ ~conf.fresh_queries

\* ResumeComplete with the test turned into len(value) > length
ResumeComplete_Longer(row) == row.present /\ Len(row.value) > row.length

\* rows and len(rows[0]["value"]) == rows[0]["length"]
ResumeComplete(row) == row.present /\ Len(row.value) = row.length

\* return CharResult(error="length undetermined")
LengthUndetermined == CharResult(FALSE, <<>>, NoneV, "length undetermined", FALSE)

AllFiltered == "All comparison operators appear filtered"

\* Resume check of fetch_characters
ResumeCheck ==
    /\ pc = "start"
    /\ IF UsesStorage /\ ResumeComplete(storage)
       THEN /\ result' = CharResult(TRUE, storage.value, NoneV, "", TRUE)
            /\ pc' = "done"
       ELSE /\ pc' = "error"
            /\ result' = result
    /\ UNCHANGED <<conf, call, target, storage, gl, po, fc, srch, ret, obs>>
    /\ UNCHANGED ie
    /\ UNCHANGED dt
    /\ UNCHANGED fp
    /\ UNCHANGED tc
    /\ UNCHANGED db
    /\ UNCHANGED cmp
    /\ UNCHANGED tm

\* _try_error_based, and "if err_res.success: return err_res". A response to
\* an error vector either carries the value of the expression or does not.
TryErrorBased ==
    /\ pc = "error"
    /\ IF ~conf.error_vector \/ call.payloads = 0
       THEN /\ pc' = "noc"
            /\ UNCHANGED <<storage, result, obs>>
       ELSE \E leak \in BOOLEAN :
            IF leak /\ target.value # <<>>
            THEN /\ storage' = IF UsesStorage
                               THEN Row(target.value, Len(target.value))
                               ELSE storage
                 /\ obs' = [Handed(obs, "error") EXCEPT
                                       !.wrote = @ \/ UsesStorage,
                                       !.written = IF UsesStorage
                                                   THEN [via |-> "error", upto |-> 0,
                                                         length |-> Len(target.value)]
                                                   ELSE @]
                 /\ result' = CharResult(TRUE, target.value, NoneV, "", FALSE)
                 /\ pc' = "done"
            ELSE /\ obs' = Handed(obs, "error")
                 /\ pc' = "noc"
                 /\ UNCHANGED <<storage, result>>
    /\ UNCHANGED <<conf, call, target, gl, po, fc, srch, ret>>
    /\ UNCHANGED ie
    /\ UNCHANGED dt
    /\ UNCHANGED fp
    /\ UNCHANGED tc
    /\ UNCHANGED db
    /\ UNCHANGED cmp
    /\ UNCHANGED tm

\* Phase 1 of _get_output_length and "if noc == 0: return 0"
NocPhase ==
    /\ pc = "noc"
    /\ obs' = IF NocTemplates(call.backend) > 0 /\ call.payloads > 0
              THEN Handed(obs, "noc") ELSE obs
    /\ IF FirstNoc = 0
       THEN /\ result' = LengthUndetermined
            /\ pc' = "done"
            /\ gl' = gl
       ELSE /\ gl' = [noc |-> FirstNoc, working_noc_query |-> 1, len_tpl |-> 1,
                      pos |-> 1, length_str |-> <<>>]
            /\ pc' = "digits"
            /\ result' = result
    /\ UNCHANGED <<conf, call, target, storage, po, fc, srch, ret>>
    /\ UNCHANGED ie
    /\ UNCHANGED dt
    /\ UNCHANGED fp
    /\ UNCHANGED tc
    /\ UNCHANGED db
    /\ UNCHANGED cmp
    /\ UNCHANGED tm

\* After _get_output_length returned n: "if length <= 0" of fetch_characters,
\* else on to probe_operator
AfterLength(n) ==
    IF n <= 0
    THEN /\ result' = LengthUndetermined
         /\ pc' = "done"
         /\ UNCHANGED <<fc, po>>
    ELSE /\ fc' = [fc EXCEPT !.length = n]
         /\ po' = [i |-> 1, attempt |-> 1]
         /\ pc' = "operator"
         /\ result' = result

\* After the while loop of phase 2 with length_str = ls: return int(length_str)
\* if it is a number, else the next length template, return 0 after the last
AfterWhile(ls) ==
    IF ls # <<>>
    THEN AfterLength(IntOf(ls)) /\ gl' = NoGl
    ELSE IF gl.len_tpl < LenTemplates(call.backend)
         THEN /\ gl' = [gl EXCEPT !.len_tpl = @ + 1, !.pos = 1, !.length_str = ls]
              /\ UNCHANGED <<pc, result, fc, po>>
         ELSE AfterLength(0) /\ gl' = NoGl

\* "while pos <= noc + 1": one iteration, a digit by _char_binary_gt over
\* [48, 57], or the end of the loop
LengthLoop ==
    /\ pc = "digits"
    /\ IF gl.pos <= gl.noc + 1
       THEN LET ch == SearchResult(RunSearch(NewSearch("binary", "length", gl.pos,
                          DigitMin, DigitMax, OrBoolean(call.vector_type), 1)))
            IN  /\ IF ch = 0
                   THEN AfterWhile(gl.length_str)
                   ELSE /\ gl' = [gl EXCEPT !.length_str = Append(@, ch), !.pos = @ + 1]
                        /\ UNCHANGED <<pc, result, fc, po>>
                /\ obs' = Handed(obs, "digit")
       ELSE /\ AfterWhile(gl.length_str)
            /\ obs' = obs
    /\ UNCHANGED <<conf, call, target, storage, srch, ret>>
    /\ UNCHANGED ie
    /\ UNCHANGED dt
    /\ UNCHANGED fp
    /\ UNCHANGED tc
    /\ UNCHANGED db
    /\ UNCHANGED cmp
    /\ UNCHANGED tm

\* forced = getattr(conf, "fetch_using", None) names one of the strategies
Forced == name_map(conf.fetch_using) # NoneV

\* ProbeList with the four probes in reverse order
ProbeList_Reversed(forced) ==
    IF name_map(forced) # NoneV
    THEN SelectSeq(probes, LAMBDA p : p.strategy = name_map(forced))
    ELSE [k \in 1..Len(probes) |-> probes[Len(probes) + 1 - k]]

\* ProbeList that never narrows the list to the forced strategy
ProbeList_IgnoreForced(forced) == probes

\* The probes probe_operator goes through: the forced strategy's alone when
\* conf.fetch_using names one, all four in order otherwise
ProbeList(forced) ==
    IF name_map(forced) # NoneV
    THEN SelectSeq(probes, LAMBDA p : p.strategy = name_map(forced))
    ELSE probes

\* One iteration of "for strat, inference in probes" of probe_operator, and
\* the raise after the last one; retry_request decides on what is raised.
ProbeOperator ==
    /\ pc = "operator"
    /\ LET list == ProbeList(conf.fetch_using)
           p    == list[po.i]
       IN  \E v \in OpVerdicts(OpOf(p.strategy)) :
           LET vulnerable == is_true(call.vector_type, call.attack01, v)
               log == Append(obs.opLog, [strategy |-> p.strategy, vulnerable |-> vulnerable])
               seen == [Handed(obs, "operator") EXCEPT !.opLog = log]
           IN  IF vulnerable
               THEN /\ fc' = [fc EXCEPT !.strategy = p.strategy, !.forced = Forced]
                    /\ po' = NoPo
                    /\ pc' = "resume"
                    /\ obs' = seen
                    /\ result' = result
               ELSE IF po.i < Len(list)
               THEN /\ po' = [po EXCEPT !.i = @ + 1]
                    /\ obs' = seen
                    /\ UNCHANGED <<pc, fc, result>>
               ELSE IF Retried("RuntimeError", po.attempt)
               THEN /\ po' = [i |-> 1, attempt |-> po.attempt + 1]
                    /\ obs' = [seen EXCEPT !.exhausted = @ + 1, !.opLog = <<>>]
                    /\ UNCHANGED <<pc, fc, result>>
               ELSE /\ result' = Raised("RuntimeError", AllFiltered)
                    /\ pc' = "done"
                    /\ obs' = [seen EXCEPT !.exhausted = @ + 1]
                    /\ UNCHANGED <<po, fc>>
    /\ UNCHANGED <<conf, call, target, storage, gl, srch, ret>>
    /\ UNCHANGED ie
    /\ UNCHANGED dt
    /\ UNCHANGED fp
    /\ UNCHANGED tc
    /\ UNCHANGED db
    /\ UNCHANGED cmp
    /\ UNCHANGED tm

\* inject_expression raises inside probe_operator: retry_request calls
\* probe_operator again from its start, or lets the exception through
ProbeOperatorFail ==
    /\ pc = "operator"
    /\ \E exc \in {"OSError", "RuntimeError"} :
        IF Retried(exc, po.attempt)
        THEN /\ po' = [i |-> 1, attempt |-> po.attempt + 1]
             /\ obs' = [Handed(obs, "operator") EXCEPT !.opLog = <<>>]
             /\ UNCHANGED <<pc, result>>
        ELSE /\ result' = Raised(exc, "inject_expression")
             /\ pc' = "done"
             /\ obs' = Handed(obs, "operator")
             /\ po' = po
    /\ UNCHANGED <<conf, call, target, storage, gl, fc, srch, ret>>
    /\ UNCHANGED ie
    /\ UNCHANGED dt
    /\ UNCHANGED fp
    /\ UNCHANGED tc
    /\ UNCHANGED db
    /\ UNCHANGED cmp
    /\ UNCHANGED tm

\* StartPos that ignores the stored value: start_pos = 1
StartPos_One(chars) == 1

\* start_pos = len(chars) + 1
StartPos(chars) == Len(chars) + 1

\* "Partial resume" of fetch_characters, and the threads guard after it
PartialResume ==
    /\ pc = "resume"
    /\ LET chars == IF UsesStorage /\ storage.present THEN storage.value ELSE <<>>
       IN  fc' = [fc EXCEPT !.chars = chars, !.pos = StartPos(chars)]
    /\ conf' = IF conf.threads # 0 /\ call.vector_type = "boolean"
               THEN [conf EXCEPT !.threads = 0] ELSE conf
    /\ pc' = "loop"
    /\ UNCHANGED <<call, target, storage, gl, po, srch, ret, result, obs>>
    /\ UNCHANGED ie
    /\ UNCHANGED dt
    /\ UNCHANGED fp
    /\ UNCHANGED tc
    /\ UNCHANGED db
    /\ UNCHANGED cmp
    /\ UNCHANGED tm

\* match probe.strategy: the _char_* method called
FnOf(strategy) ==
    CASE strategy = "BINARY_GT"   -> "binary"
      [] strategy = "BETWEEN"     -> "between"
      [] strategy = "IN_OPERATOR" -> "in"
      [] OTHER                    -> "linear"

\* success = len(chars) == length; return CharResult(...)
Finish(chars) ==
    /\ result' = CharResult(Len(chars) = fc.length, chars, fc.strategy,
                            IF Len(chars) = fc.length THEN "" ELSE "incomplete", FALSE)
    /\ pc' = "done"

\* Persisted with the upsert placed before "chars += char"
Persisted_Previous(chars, length) == Row(SubSeq(chars, 1, Len(chars) - 1), length)

\* Row(chars, chars' own length): every write marks the value complete
Persisted_Final(chars, length) == Row(chars, Len(chars))

\* INSERT OR REPLACE INTO storage (type, value, length) VALUES (dump_type, chars, length)
Persisted(chars, length) == Row(chars, length)

\* One iteration of "for pos in range(start_pos, length + 1)"
CharStep ==
    /\ pc = "loop"
    /\ fc.pos <= fc.length
    /\ LET char == SearchResult(RunSearch(NewSearch(FnOf(fc.strategy), "value", fc.pos,
                        MinOrd, MaxOrd, OrBoolean(call.vector_type), 1)))
           chars == Append(fc.chars, char)
           seen == [Handed(obs, "char") EXCEPT !.probed = @ \cup {fc.pos},
                                                !.calls = Called(@, fc.pos)]
       IN  IF char = 0
           THEN /\ Finish(fc.chars)
                /\ obs' = seen
                /\ UNCHANGED <<fc, storage>>
           ELSE /\ fc' = [fc EXCEPT !.chars = chars, !.pos = @ + 1]
                /\ storage' = IF UsesStorage THEN Persisted(chars, fc.length) ELSE storage
                /\ obs' = IF UsesStorage
                          THEN [seen EXCEPT !.wrote = TRUE,
                                            !.written = [via |-> "loop", upto |-> fc.pos,
                                                         length |-> fc.length]]
                          ELSE seen
                /\ UNCHANGED <<pc, result>>
    /\ UNCHANGED <<conf, call, target, gl, po, srch, ret>>
    /\ UNCHANGED ie
    /\ UNCHANGED dt
    /\ UNCHANGED fp
    /\ UNCHANGED tc
    /\ UNCHANGED db
    /\ UNCHANGED cmp
    /\ UNCHANGED tm

\* The for loop ends because the range is used up
LoopEnd ==
    /\ pc = "loop"
    /\ fc.pos > fc.length
    /\ Finish(fc.chars)
    /\ UNCHANGED <<conf, call, target, storage, gl, po, fc, srch, ret, obs>>
    /\ UNCHANGED ie
    /\ UNCHANGED dt
    /\ UNCHANGED fp
    /\ UNCHANGED tc
    /\ UNCHANGED db
    /\ UNCHANGED cmp
    /\ UNCHANGED tm

\* The request about to be sent outside probe_operator, NoneV when the phase
\* sends none
NextRequest ==
    CASE pc = "error"  -> IF conf.error_vector /\ call.payloads > 0 THEN "error" ELSE NoneV
      [] pc = "noc"    -> IF NocTemplates(call.backend) > 0 /\ call.payloads > 0
                          THEN "noc" ELSE NoneV
      [] pc = "digits" -> IF gl.pos <= gl.noc + 1 THEN "digit" ELSE NoneV
      [] pc = "loop"   -> IF fc.pos <= fc.length THEN "char" ELSE NoneV
      [] OTHER         -> NoneV

\* An exception of inject_expression leaves fetch_characters: at once from
\* _try_error_based and from phase 1, from a _char_* method when retry_request
\* does not catch it or has used its attempts up
InjectFail ==
    /\ NextRequest # NoneV
    /\ \E exc \in {"OSError", "RuntimeError"} :
           result' = Raised(exc, "inject_expression")
    /\ obs' = [Handed(obs, NextRequest) EXCEPT
                          !.probed = IF pc = "loop" THEN @ \cup {fc.pos} ELSE @,
                                   !.calls = IF pc = "loop" THEN Called(@, fc.pos) ELSE @]
    /\ pc' = "done"
    /\ UNCHANGED <<conf, call, target, storage, gl, po, fc, srch, ret>>
    /\ UNCHANGED ie
    /\ UNCHANGED dt
    /\ UNCHANGED fp
    /\ UNCHANGED tc
    /\ UNCHANGED db
    /\ UNCHANGED cmp
    /\ UNCHANGED tm

\* fetch_characters is invoked again with the same arguments
Again ==
    /\ pc = "done"
    /\ call.entry = "fetch_characters"
    /\ pc' = "start"
    /\ gl' = NoGl /\ po' = NoPo /\ fc' = NoFc
    /\ result' = NoResult
    /\ obs' = [NoObs EXCEPT !.store0 = storage,
                            !.prev = IF result.resumed THEN result ELSE NoResult]
    /\ UNCHANGED <<conf, call, target, storage, srch, ret>>
    /\ UNCHANGED ie
    /\ UNCHANGED dt
    /\ UNCHANGED fp
    /\ UNCHANGED tc
    /\ UNCHANGED db
    /\ UNCHANGED cmp
    /\ UNCHANGED tm

\* ------------------------------------------------------- the calls explored
FilterSets == {{}, {">"}}
Targets == {[value |-> v, filtered |-> f, mode |-> "truthful"] : v \in Values, f \in FilterSets}

\* Vector templates as detection stores them: a time-based one has the sleep
\* time as a placeholder
BooleanVector == <<"AND ", "[INFERENCE]">>
TimeVector == <<"AND IF(", "[INFERENCE]", ",SLEEP(", "[SLEEPTIME]", "),0)">>

\* (vector_type, attack01, backend, vector) of the call
CallArgs ==
    {<<"boolean", TRUE, "MySQL", BooleanVector>>, <<"boolean", FALSE, "MySQL", BooleanVector>>,
     <<"time", FALSE, "MySQL", TimeVector>>, <<NoneV, TRUE, "MySQL", BooleanVector>>,
     <<"boolean", TRUE, NoneV, BooleanVector>>}

\* Rows an earlier, interrupted or finished, extraction of the same key left
StoredRows ==
    {Row([i \in 1..k |-> 116], n) : k \in 1..MaxLen, n \in 1..MaxLen}

\* (conf.fresh_queries, dump_type, the row stored under dump_type): there is
\* no row without a key
Setups ==
    {<<f, NoneV, NoRow>> : f \in BOOLEAN}
        \cup {<<FALSE, DumpKey, r>> : r \in {NoRow} \cup {r \in StoredRows : Len(r.value) <= r.length}}
        \cup {<<TRUE, DumpKey, r>> : r \in {NoRow, Row(<<116>>, 2)}}

Init ==
    /\ pc = "start"
    /\ target \in Targets
    /\ \E u \in Setups, a \in CallArgs, n \in 1..MaxPayloads :
           /\ conf \in [fetch_using : FetchUsing, fresh_queries : {u[1]},
                        threads : {0, 4}, error_vector : BOOLEAN,
                        ignore_code : {Str(FALSE, <<>>)}]
           /\ call = [entry |-> "fetch_characters", dump_type |-> u[2],
                      vector_type |-> a[1], attack01 |-> a[2], backend |-> a[3],
                      payloads |-> n, vector |-> a[4]]
           /\ storage = u[3]
    /\ gl = NoGl /\ po = NoPo /\ fc = NoFc /\ srch = NoSearch
    /\ ret = 0 /\ result = NoResult
    /\ obs = [NoObs EXCEPT !.store0 = storage]
    /\ ie = NoIe /\ dt = NoDt
    /\ fp = NoFp /\ tc = NoTc /\ db = NoDb /\ cmp = NoCmp
    /\ tm = NoTm

Next ==
    \/ ResumeCheck
    \/ TryErrorBased
    \/ NocPhase
    \/ LengthLoop
    \/ ProbeOperator
    \/ ProbeOperatorFail
    \/ PartialResume
    \/ CharStep
    \/ LoopEnd
    \/ InjectFail
    \/ Again

Spec == Init /\ [][Next]_vars

\* ------------------------------------------------------ inject_expression
\* What one transport attempt (client.get / client.post) yields
Response(status) == [kind |-> "response", status |-> status]
Fails(kind) == [kind |-> kind, status |-> 0]
Outcomes ==
    {Response(st) : st \in {200, 401, 403}}
        \cup {Fails(k) : k \in {"TimeoutException", "ConnectError", "Exception"}}

IgnoreCodes ==
    {Str(TRUE, <<>>)}
        \cup {Str(FALSE, c) : c \in {<<>>} \cup {<<x>> : x \in {401, 403}}}
        \cup {List(c) : c \in {<<x>> : x \in {401, 403}}}
        \cup {List(c) : c \in {d \in SeqsOf({401, 403}, MaxCodes) : Len(d) > 1}}

\* GhauriConfig.parsed_ignore_codes of the string of the command line
parsed_ignore_codes(ignore_code) ==
    IF ignore_code.star THEN {401}
    ELSE {ignore_code.items[k] : k \in 1..Len(ignore_code.items)}

\* "status in ignore_codes" with ignore_codes = conf.ignore_code: an int in a
\* str raises TypeError
status_in(status, ignore_code) ==
    IF ignore_code.type = "str" THEN "TypeError"
    ELSE IF \E k \in 1..Len(ignore_code.items) : ignore_code.items[k] = status
    THEN "True" ELSE "False"

\* inject_expression leaves its loop
Returns(n, log, status) ==
    ie' = [attempt |-> n, log |-> log, outcome |-> "return", status |-> status, exc |-> NoneV]
Raises(n, log, exc) ==
    ie' = [attempt |-> n, log |-> log, outcome |-> "raise", status |-> 0, exc |-> exc]

\* "except Exception": raise on the last attempt, back off and go on otherwise
Unexpected(n, log, exc) ==
    IF n = MAX_RETRIES
    THEN Raises(n, log, exc) /\ pc' = "done"
    ELSE ie' = [ie EXCEPT !.attempt = n, !.log = log] /\ pc' = pc

\* One iteration of "while attempt < MAX_RETRIES"
InjectAttempt ==
    /\ pc = "inject"
    /\ ie.attempt < MAX_RETRIES
    /\ \E o \in Outcomes :
        LET n == ie.attempt + 1
            log == Append(ie.log, o)
        IN  CASE o.kind = "response" /\ o.status = 401 ->
                   LET covered == status_in(o.status, conf.ignore_code)
                   IN  CASE covered = "TypeError" -> Unexpected(n, log, "TypeError")
                         [] covered = "True"      -> Returns(n, log, o.status) /\ pc' = "done"
                         [] OTHER                 -> Raises(n, log, "SystemExit(1)") /\ pc' = "done"
              [] o.kind = "response" /\ o.status # 401 ->
                   Returns(n, log, o.status) /\ pc' = "done"
              [] o.kind \in {"TimeoutException", "ConnectError"} ->
                   ie' = [ie EXCEPT !.attempt = n, !.log = log] /\ pc' = pc
              [] OTHER -> Unexpected(n, log, o.kind)
    /\ UNCHANGED <<conf, call, target, storage, gl, po, fc, srch, ret, result, obs>>
    /\ UNCHANGED dt
    /\ UNCHANGED fp
    /\ UNCHANGED tc
    /\ UNCHANGED db
    /\ UNCHANGED cmp
    /\ UNCHANGED tm

\* The loop ends with no return: raise RuntimeError("Injection retry limit exceeded")
InjectGiveUp ==
    /\ pc = "inject"
    /\ ie.attempt >= MAX_RETRIES
    /\ Raises(ie.attempt, ie.log, "RuntimeError")
    /\ pc' = "done"
    /\ UNCHANGED <<conf, call, target, storage, gl, po, fc, srch, ret, result, obs>>
    /\ UNCHANGED dt
    /\ UNCHANGED fp
    /\ UNCHANGED tc
    /\ UNCHANGED db
    /\ UNCHANGED cmp
    /\ UNCHANGED tm

InitInject ==
    /\ pc = "inject"
    /\ \E ic \in IgnoreCodes : conf = [NoConf EXCEPT !.ignore_code = ic]
    /\ call = [NoCall EXCEPT !.entry = "inject_expression"]
    /\ target = [value |-> <<>>, filtered |-> {}, mode |-> "truthful"]
    /\ storage = NoRow
    /\ gl = NoGl /\ po = NoPo /\ fc = NoFc /\ srch = NoSearch
    /\ ret = 0 /\ result = NoResult /\ obs = NoObs
    /\ ie = NoIe /\ dt = NoDt
    /\ fp = NoFp /\ tc = NoTc /\ db = NoDb /\ cmp = NoCmp
    /\ tm = NoTm

NextInject == InjectAttempt \/ InjectGiveUp

SpecInject == InitInject /\ [][NextInject]_vars

\* ------------------------------------------------------------- tbl_payload
\* Columns of tbl_payload as SESSION_SCHEMA of session.py creates it, and as
\* SESSION_SCHEMA of lib.py does
SessionColumns ==
    {"id", "title", "payload", "prepared_vector", "backend", "parameter",
     "injection_type", "payload_type", "endpoint", "param_type", "string",
     "not_string", "attack01", "cases", "timestamp"}
LibColumns ==
    {"id", "title", "attempts", "payload", "vector", "backend", "parameter",
     "injection_type", "payload_type", "endpoint", "param_type", "string",
     "not_string", "attack01", "cases", "timestamp"}
Columns(schema) == IF schema = "session.py" THEN SessionColumns ELSE LibColumns

\* Columns PAYLOAD_STATEMENT names
StatementColumns ==
    {"title", "attempts", "payload", "vector", "backend", "parameter",
     "injection_type", "payload_type", "endpoint", "param_type", "string",
     "not_string", "attack01", "cases"}

\* PRIMARY KEY and UNIQUE constraints of tbl_payload, the same in both
\* schemas: id INTEGER PRIMARY KEY AUTOINCREMENT and nothing else
UniqueKeys == {{"id"}}

\* Rows an INSERT OR REPLACE of row new deletes: those equal to it on all
\* columns of some uniqueness constraint
Replaced(rows, new) ==
    {n \in 1..Len(rows) : \E key \in UniqueKeys : \A c \in key : rows[n][c] = new[c]}

RECURSIVE Without(_, _, _)
Without(rows, gone, n) ==
    IF n > Len(rows) THEN <<>>
    ELSE (IF n \in gone THEN <<>> ELSE <<rows[n]>>) \o Without(rows, gone, n + 1)

\* session.dump(query=PAYLOAD_STATEMENT, values): a statement that names a
\* column the table does not have raises sqlite3.OperationalError; id is not
\* among the values, so the row gets the next AUTOINCREMENT id
dump(d, endpoint, parameter, payload_type) ==
    LET new == PayloadRow(d.seq + 1, endpoint, parameter, payload_type)
        e == [d EXCEPT !.dumps = @ + 1, !.last = new]
    IN  IF ~(StatementColumns \subseteq Columns(d.schema))
        THEN [e EXCEPT !.error = "OperationalError"]
        ELSE [e EXCEPT !.rows = Append(Without(d.rows, Replaced(d.rows, new), 1), new),
                       !.seq = @ + 1]

\* "for sqli in sqlis: session.dump(...)": the records of one run share
\* base.path and the parameter; the first dump that raises ends the loop
RECURSIVE DumpAll(_, _, _)
DumpAll(d, sqlis, n) ==
    IF n > Len(sqlis) \/ d.error # NoneV THEN d
    ELSE DumpAll(dump(d, "/item", "id", sqlis[n]), sqlis, n + 1)

\* --------------------------------------------- test_and_confirm_injection
\* test_cases of confirm_boolean_injection: how many identity pairs
\* (test_cases[:3] when response_time > 8)
TestCases(response_time) == IF response_time > 8 THEN 3 ELSE 5

\* success_rate = len(results) / (len(test_cases) * 2) is at least tenths / 10
RateAtLeast(results, test_cases, tenths) ==
    test_cases > 0 /\ results * 10 >= tenths * (test_cases * 2)

\* is_vulnerable with a single threshold of 0.5
is_vulnerable_Half(results, test_cases, response_time) ==
    RateAtLeast(results, test_cases, 5)

\* is_vulnerable of confirm_boolean_injection
is_vulnerable(results, test_cases, response_time) ==
    \/ RateAtLeast(results, test_cases, 8)
    \/ (response_time > 8 /\ RateAtLeast(results, test_cases, 7))

Stage(d, name) == [d EXCEPT !.stages = Append(@, name)]

\* basic_connection_and_heuristic_check: the connection test and the session
\* resume check. With rows of the endpoint that do not name the parameter
\* is_resumed is set, stability and heuristic are skipped and the return
\* statement reads is_dynamic, which was never assigned.
BasicCheck ==
    /\ pc = "connect"
    /\ LET d == Stage(dt, "CONNECT")
       IN  CASE dt.rows = "parameter" ->
                  /\ dt' = [Stage(d, "RESUME") EXCEPT !.is_resumed = TRUE,
                                                      !.is_parameter_tested = TRUE]
                  /\ pc' = "resume"
             [] dt.rows = "others" ->
                  /\ dt' = [d EXCEPT !.is_resumed = TRUE, !.outcome = "UnboundLocalError"]
                  /\ pc' = "done"
             [] OTHER ->
                  /\ dt' = d
                  /\ pc' = "stability"
    /\ UNCHANGED <<conf, call, target, storage, gl, po, fc, srch, ret, result, obs, ie>>
    /\ UNCHANGED fp
    /\ UNCHANGED tc
    /\ UNCHANGED db
    /\ UNCHANGED cmp
    /\ UNCHANGED tm

\* Stability check of basic_connection_and_heuristic_check: a second
\* connection request. A content length other than the first one's clears
\* conf._bool_check_on_ct; a set of filtered lines other than the first one's
\* sets conf.text_only and is_dynamic
Stability ==
    /\ pc = "stability"
    /\ \E same \in BOOLEAN, stable \in BOOLEAN :
        dt' = [Stage(dt, "STABILITY") EXCEPT
                  !.bool_check_on_ct = IF same THEN @ ELSE FALSE,
                  !.same_length = same,
                  !.stable = stable,
                  !.text_only = IF stable THEN @ ELSE TRUE,
                  !.is_dynamic = ~stable]
    /\ pc' = "heuristic"
    /\ UNCHANGED <<conf, call, target, storage, gl, po, fc, srch, ret, result, obs, ie>>
    /\ UNCHANGED fp
    /\ UNCHANGED tc
    /\ UNCHANGED db
    /\ UNCHANGED cmp
    /\ UNCHANGED tm

\* The breakers of the heuristic
test_expressions == <<"'\",..))", "',..))", "\",..))", "'\"", "%27%22">>

\* Heuristic of basic_connection_and_heuristic_check, one iteration of "for
\* expr in test_expressions": the response carries a DBMS error signature or
\* not, and has status 400 or another; then the return, when the loop was
\* left or is over
Heuristic ==
    /\ pc = "heuristic"
    /\ dt.breakers < Len(test_expressions)
    /\ \E dbms_hint \in {NoneV, "MySQL"}, status_code \in {200, 400} :
        LET d == [(IF dt.breakers = 0 THEN Stage(dt, "HEURISTIC") ELSE dt)
                      EXCEPT !.breakers = @ + 1]
        IN  IF dbms_hint # NoneV
            THEN /\ dt' = [d EXCEPT !.possible_dbms = dbms_hint,
                                    !.prioritize = @ \/ "E" \notin dt.techniques]
                 /\ pc' = "detect"
            ELSE IF status_code # 400 \/ d.breakers = Len(test_expressions)
                 THEN dt' = d /\ pc' = "detect"
                 ELSE dt' = d /\ pc' = pc
    /\ UNCHANGED <<conf, call, target, storage, gl, po, fc, srch, ret, result, obs, ie>>
    /\ UNCHANGED fp
    /\ UNCHANGED tc
    /\ UNCHANGED db
    /\ UNCHANGED cmp
    /\ UNCHANGED tm

\* "if check.is_parameter_tested: resumed = check_session(...)": the name
\* check_session is neither defined nor imported in tests.py, so the call
\* raises NameError
ResumeSession ==
    /\ pc = "resume"
    /\ dt' = [dt EXCEPT !.outcome = "NameError"]
    /\ pc' = "done"
    /\ UNCHANGED <<conf, call, target, storage, gl, po, fc, srch, ret, result, obs, ie>>
    /\ UNCHANGED fp
    /\ UNCHANGED tc
    /\ UNCHANGED db
    /\ UNCHANGED cmp
    /\ UNCHANGED tm

\* Steps 2 to 4: each technique asked for either finds an injection or not;
\* then "if not injected: return None"
Detect ==
    /\ pc = "detect"
    /\ \E e \in IF "E" \in dt.techniques THEN BOOLEAN ELSE {FALSE},
          b \in IF "B" \in dt.techniques THEN BOOLEAN ELSE {FALSE},
          t \in IF "T" \in dt.techniques THEN BOOLEAN ELSE {FALSE} :
        LET d == [Stage(dt, "DETECT") EXCEPT !.is_error = e, !.is_bool = b, !.is_time = t,
                         !.sqlis = IF e THEN <<"error-based">> ELSE <<>>,
                         !.vectors = (IF e THEN {"error_vector"} ELSE {})
                                        \cup (IF b THEN {"boolean_vector"} ELSE {})
                                        \cup (IF t THEN {"time_vector"} ELSE {})]
        IN  IF e \/ b \/ t
            THEN dt' = d /\ pc' = "confirm"
            ELSE dt' = [d EXCEPT !.outcome = "not injectable"] /\ pc' = "done"
    /\ UNCHANGED <<conf, call, target, storage, gl, po, fc, srch, ret, result, obs, ie>>
    /\ UNCHANGED fp
    /\ UNCHANGED tc
    /\ UNCHANGED db
    /\ UNCHANGED cmp
    /\ UNCHANGED tm

\* Step 5, "if is_error": confirmed as it is, the other techniques' payloads
\* appended
ConfirmError ==
    /\ pc = "confirm"
    /\ dt.is_error
    /\ dt' = [dt EXCEPT !.is_confirmed = TRUE,
                        !.sqlis = @ \o (IF dt.is_bool THEN <<"boolean-based">> ELSE <<>>)
                                    \o (IF dt.is_time THEN <<"time-based">> ELSE <<>>)]
    /\ pc' = "save"
    /\ UNCHANGED <<conf, call, target, storage, gl, po, fc, srch, ret, result, obs, ie>>
    /\ UNCHANGED fp
    /\ UNCHANGED tc
    /\ UNCHANGED db
    /\ UNCHANGED cmp
    /\ UNCHANGED tm

\* Step 5, else: confirm_boolean_injection is entered when a boolean
\* injection was detected
ConfirmStart ==
    /\ pc = "confirm"
    /\ ~dt.is_error
    /\ IF dt.is_bool
       THEN /\ dt' = [Stage(dt, "CONFIRM") EXCEPT
                         !.test_cases = TestCases(dt.response_time),
                         !.i = 0, !.results = 0, !.mismatch = 0]
            /\ pc' = "pairs"
       ELSE /\ dt' = dt
            /\ pc' = "confirm_time"
    /\ UNCHANGED <<conf, call, target, storage, gl, po, fc, srch, ret, result, obs, ie>>
    /\ UNCHANGED fp
    /\ UNCHANGED tc
    /\ UNCHANGED db
    /\ UNCHANGED cmp
    /\ UNCHANGED tm

\* One iteration of "for case in test_cases": check_boolean_responses judges
\* the pair, on the content-length case or another; on that case the lengths
\* of the two responses match those seen at detection or do not
ConfirmPair ==
    /\ pc = "pairs"
    /\ dt.i < dt.test_cases
    /\ dt.mismatch = 0
    /\ \E vulnerable \in BOOLEAN, content_length \in BOOLEAN, same \in BOOLEAN :
        dt' = [dt EXCEPT !.i = @ + 1,
                         !.results = IF vulnerable THEN @ + 2 ELSE @,
                         !.mismatch = IF content_length /\ dt.bool_check_on_ct /\ ~same
                                      THEN dt.i + 1 ELSE 0]
    /\ UNCHANGED <<pc, conf, call, target, storage, gl, po, fc, srch, ret, result, obs, ie>>
    /\ UNCHANGED fp
    /\ UNCHANGED tc
    /\ UNCHANGED db
    /\ UNCHANGED cmp
    /\ UNCHANGED tm

\* The loop is over or was broken: success_rate and the return of
\* confirm_boolean_injection, then "if bool_confirm.vulnerable"
ConfirmRate ==
    /\ pc = "pairs"
    /\ dt.i = dt.test_cases \/ dt.mismatch # 0
    /\ LET v == is_vulnerable(dt.results, dt.test_cases, dt.response_time)
       IN  dt' = [dt EXCEPT !.bool_confirm = IF v THEN "accepted" ELSE "rejected",
                            !.is_confirmed = v,
                            !.sqlis = IF v THEN Append(@, "boolean-based") ELSE @]
    /\ pc' = "confirm_time"
    /\ UNCHANGED <<conf, call, target, storage, gl, po, fc, srch, ret, result, obs, ie>>
    /\ UNCHANGED fp
    /\ UNCHANGED tc
    /\ UNCHANGED db
    /\ UNCHANGED cmp
    /\ UNCHANGED tm

\* "if is_time and ... and not is_confirmed", then "if not is_confirmed: return None"
ConfirmTime ==
    /\ pc = "confirm_time"
    /\ LET t == dt.is_time /\ ~dt.is_confirmed
           d == [dt EXCEPT !.is_confirmed = @ \/ t,
                           !.sqlis = IF t THEN Append(@, "time-based") ELSE @]
       IN  IF d.is_confirmed
           THEN dt' = d /\ pc' = "save"
           ELSE dt' = [d EXCEPT !.outcome = "false positive"] /\ pc' = "done"
    /\ UNCHANGED <<conf, call, target, storage, gl, po, fc, srch, ret, result, obs, ie>>
    /\ UNCHANGED fp
    /\ UNCHANGED tc
    /\ UNCHANGED db
    /\ UNCHANGED cmp
    /\ UNCHANGED tm

\* Step 6: every payload of sqlis is written to the session, unless the
\* statement does not fit the table. Step 7: the answer to "Continue testing
\* other parameters"; any answer but "y" calls check_session, which raises
\* NameError
Save ==
    /\ pc = "save"
    /\ db' = DumpAll(db, dt.sqlis, 1)
    /\ IF db'.error # NoneV
       THEN dt' = [dt EXCEPT !.outcome = db'.error]
       ELSE \E cont \in {"y", "N"} :
               dt' = [dt EXCEPT !.saved = dt.sqlis,
                                !.outcome = IF cont = "y" THEN "vulnerable" ELSE "NameError"]
    /\ pc' = "done"
    /\ UNCHANGED <<conf, call, target, storage, gl, po, fc, srch, ret, result, obs, ie>>
    /\ UNCHANGED fp
    /\ UNCHANGED tc
    /\ UNCHANGED cmp
    /\ UNCHANGED tm

Techniques == {{"E", "B", "T"}, {"B", "T"}, {"E", "B"}, {"B"}, {"T"}}

InitDetect ==
    /\ pc = "connect"
    /\ \E f \in BOOLEAN : conf = [NoConf EXCEPT !.fresh_queries = f]
    /\ call = [NoCall EXCEPT !.entry = "test_and_confirm_injection"]
    /\ \E r \in {NoneV, "others", "parameter"}, q \in Techniques, rt \in {8, 9}, ct \in BOOLEAN :
           dt = [NoDt EXCEPT !.rows = r, !.techniques = q, !.response_time = rt,
                             !.bool_check_on_ct = ct]
    /\ target = [value |-> <<>>, filtered |-> {}, mode |-> "truthful"]
    /\ storage = NoRow
    /\ gl = NoGl /\ po = NoPo /\ fc = NoFc /\ srch = NoSearch
    /\ ret = 0 /\ result = NoResult /\ obs = NoObs
    /\ \E schema \in {"session.py", "lib.py"} : db = [NoDb EXCEPT !.schema = schema]
    /\ ie = NoIe /\ fp = NoFp /\ tc = NoTc /\ cmp = NoCmp
    /\ tm = NoTm

NextDetect ==
    \/ BasicCheck
    \/ Stability
    \/ Heuristic
    \/ ResumeSession
    \/ Detect
    \/ ConfirmError
    \/ ConfirmStart
    \/ ConfirmPair
    \/ ConfirmRate
    \/ ConfirmTime
    \/ Save

SpecDetect == InitDetect /\ [][NextDetect]_vars

\* ------------------------------------------------ FingerPrintDBMS.fingerprint
\* check_fn list of fingerprint, in its order
Candidates == <<"MySQL", "PostgreSQL", "Oracle">>

\* result.confidence after the heuristic pair and after the confirmation
\* pair of check_mysql, check_postgresql, check_oracle (hundredths)
HeuristicConfidence == <<85, 82, 84>>
ConfirmedConfidence == <<98, 97, 96>>

\* _check_boolean: the verdict of check_boolean_responses on the pair, and
\* the filter on the status codes of the attacks kept from detection
\* (expected_true is always True)
check_boolean(vulnerable, attacks, same) ==
    IF attacks /\ ~same THEN FALSE ELSE vulnerable = TRUE

\* check_mysql / check_postgresql / check_oracle: heuristic and confirmed are
\* what _check_boolean returned for the heuristic and the confirmation pair
check_dbms(k, heuristic_only, heuristic, confirmed) ==
    IF ~heuristic THEN FingerprintResult(NoneV, 0, "heuristic")
    ELSE IF heuristic_only
         THEN FingerprintResult(Candidates[k], HeuristicConfidence[k], "heuristic")
    ELSE IF confirmed
         THEN FingerprintResult(Candidates[k], ConfirmedConfidence[k], "confirmation")
    ELSE FingerprintResult(Candidates[k], HeuristicConfidence[k], "heuristic")

\* One pair sent by _check_boolean
Pair(k, pair, vulnerable, same, passed) ==
    [dbms |-> Candidates[k], pair |-> pair, vulnerable |-> vulnerable,
     same |-> same, passed |-> passed]

\* What the status filter of _check_boolean can see
Sames == IF fp.attacks THEN BOOLEAN ELSE {TRUE}

\* One iteration of the loop of fingerprint up to the confidence test:
\* check_fn(heuristic_only=True)
FingerprintHeuristic ==
    /\ pc = "fp_heuristic"
    /\ fp.k <= Len(Candidates)
    /\ \E vulnerable \in BOOLEAN, same \in Sames :
        LET passed == check_boolean(vulnerable, fp.attacks, same)
            r == check_dbms(fp.k, TRUE, passed, FALSE)
            f == [fp EXCEPT !.log = Append(@, Pair(fp.k, "heuristic", vulnerable, same, passed))]
        IN  IF r.dbms = NoneV
            THEN fp' = [f EXCEPT !.k = @ + 1] /\ pc' = pc
            ELSE IF r.confidence >= 80
            THEN fp' = [f EXCEPT !.result = r] /\ pc' = "fp_confirm"
            ELSE fp' = [f EXCEPT !.result = r, !.returned = r] /\ pc' = "done"
    /\ UNCHANGED <<conf, call, target, storage, gl, po, fc, srch, ret, result, obs, ie, dt, tc, db, cmp>>
    /\ UNCHANGED tm

\* check_fn(heuristic_only=False) sends the heuristic pair again, and the
\* confirmation pair when that passed; then "if confirm_result.dbms: return
\* confirm_result" and "return result"
FingerprintConfirm ==
    /\ pc = "fp_confirm"
    /\ \E vulnerable \in BOOLEAN, same \in Sames, v2 \in BOOLEAN, s2 \in Sames :
        LET passed == check_boolean(vulnerable, fp.attacks, same)
            confirmed == check_boolean(v2, fp.attacks, s2)
            confirm_result == check_dbms(fp.k, FALSE, passed, confirmed)
            again == Pair(fp.k, "heuristic", vulnerable, same, passed)
            sent == IF passed
                    THEN <<again, Pair(fp.k, "confirmation", v2, s2, confirmed)>>
                    ELSE <<again>>
        IN  /\ passed \/ (v2 /\ s2)     \* no confirmation pair after a failed heuristic pair
            /\ fp' = [fp EXCEPT !.log = @ \o sent,
                                !.returned = IF confirm_result.dbms # NoneV
                                             THEN confirm_result ELSE fp.result]
    /\ pc' = "done"
    /\ UNCHANGED <<conf, call, target, storage, gl, po, fc, srch, ret, result, obs, ie, dt, tc, db, cmp>>
    /\ UNCHANGED tm

\* The loop is over: no check_fn reported a DBMS
FingerprintNone ==
    /\ pc = "fp_heuristic"
    /\ fp.k > Len(Candidates)
    /\ fp' = [fp EXCEPT !.returned = FingerprintResult(NoneV, 0, "none")]
    /\ pc' = "done"
    /\ UNCHANGED <<conf, call, target, storage, gl, po, fc, srch, ret, result, obs, ie, dt, tc, db, cmp>>
    /\ UNCHANGED tm

InitFingerprint ==
    /\ pc = "fp_heuristic"
    /\ conf = NoConf
    /\ call = [NoCall EXCEPT !.entry = "fingerprint"]
    /\ \E a \in BOOLEAN : fp = [NoFp EXCEPT !.attacks = a]
    /\ target = [value |-> <<>>, filtered |-> {}, mode |-> "truthful"]
    /\ storage = NoRow
    /\ gl = NoGl /\ po = NoPo /\ fc = NoFc /\ srch = NoSearch
    /\ ret = 0 /\ result = NoResult /\ obs = NoObs
    /\ ie = NoIe /\ dt = NoDt /\ tc = NoTc /\ db = NoDb /\ cmp = NoCmp
    /\ tm = NoTm

NextFingerprint == FingerprintHeuristic \/ FingerprintConfirm \/ FingerprintNone

SpecFingerprint == InitFingerprint /\ [][NextFingerprint]_vars

\* --------------------------------------------------------- the tamper chain
\* TamperStage values
Stages == {"detection", "injection", "extraction"}

\* _ALL_TAMPERS: the BaseTamper subclasses of the tampers directory, sorted
\* by priority (charencode 10, space2comment 15, randomcase 20)
ALL_TAMPERS ==
    << [name |-> "charencode", stage |-> "injection", priority |-> 10,
        applies_to |-> {"boolean", "time", "error"}],
       [name |-> "space2comment", stage |-> "injection", priority |-> 15,
        applies_to |-> {"boolean", "time", "error"}],
       [name |-> "randomcase", stage |-> "injection", priority |-> 20,
        applies_to |-> {"boolean", "time", "error"}] >>

\* t(): an instance of tamper class t
Instance(t) == [cls |-> t.name, instance |-> TRUE]

\* name.lower() on the names the model uses
Lower(name) == IF name = "ALL" THEN "all" ELSE name

\* [t() for t in _ALL_TAMPERS if keep(t)], in the order of _ALL_TAMPERS
RECURSIVE InstancesFrom(_, _, _)
InstancesFrom(n, stage, technique_type) ==
    IF n > Len(ALL_TAMPERS) THEN <<>>
    ELSE LET t == ALL_TAMPERS[n]
             keep == /\ t.stage = stage
                     /\ technique_type = NoneV \/ technique_type \in t.applies_to
         IN  (IF keep THEN <<Instance(t)>> ELSE <<>>)
                 \o InstancesFrom(n + 1, stage, technique_type)

\* The "if user_selected" loop of get_tamper_chain: "all" extends the chain
\* by every tamper of the stage and ends the loop
RECURSIVE Selected(_, _)
Selected(names, stage) ==
    IF names = <<>> THEN <<>>
    ELSE IF Lower(Head(names)) = "all" THEN InstancesFrom(1, stage, NoneV)
    ELSE LET known == {n \in 1..Len(ALL_TAMPERS) :
                          ALL_TAMPERS[n].name = Head(names) /\ ALL_TAMPERS[n].stage = stage}
         IN  (IF known = {} THEN <<>> ELSE <<Instance(ALL_TAMPERS[CHOOSE n \in known : TRUE])>>)
                 \o Selected(Tail(names), stage)

\* get_tamper_chain with the user's selection ignored
get_tamper_chain_Auto(stage, technique_type, user_selected) ==
    InstancesFrom(1, stage, technique_type)

get_tamper_chain(stage, technique_type, user_selected) ==
    IF user_selected # <<>> THEN Selected(user_selected, stage)
    ELSE InstancesFrom(1, stage, technique_type)

\* apply_tamper_chain up to its loop
TamperChain ==
    /\ pc = "tc_chain"
    /\ tc' = [tc EXCEPT !.chain = get_tamper_chain(tc.stage, tc.technique_type, tc.user_selected),
                        !.current = tc.payload, !.applied = <<>>, !.confidence = 100, !.i = 0]
    /\ pc' = "tc_loop"
    /\ UNCHANGED <<conf, call, target, storage, gl, po, fc, srch, ret, result, obs, ie, dt, fp, db, cmp>>
    /\ UNCHANGED tm

\* "result = tamper().tamper(current, ctx)": tamper is an instance of a
\* BaseTamper subclass and BaseTamper defines no __call__, so tamper() raises
\* TypeError before the tamper runs
TamperStep ==
    /\ pc = "tc_loop"
    /\ tc.i < Len(tc.chain)
    /\ tc.chain[tc.i + 1].instance
    /\ tc' = [tc EXCEPT !.outcome = "TypeError"]
    /\ pc' = "done"
    /\ UNCHANGED <<conf, call, target, storage, gl, po, fc, srch, ret, result, obs, ie, dt, fp, db, cmp>>
    /\ UNCHANGED tm

\* The loop is over: return TamperResult(current, applied, total_confidence)
TamperReturn ==
    /\ pc = "tc_loop"
    /\ tc.i = Len(tc.chain)
    /\ tc' = [tc EXCEPT !.outcome = "returned"]
    /\ pc' = "done"
    /\ UNCHANGED <<conf, call, target, storage, gl, po, fc, srch, ret, result, obs, ie, dt, fp, db, cmp>>
    /\ UNCHANGED tm

Payloads == {"", "1=1", "SELECT 1"}
TechniqueTypes == {NoneV, "boolean", "union"}
UserSelected ==
    {<<>>, <<"all">>, <<"charencode">>, <<"randomcase", "charencode">>, <<"nosuch">>,
     <<"space2comment", "ALL", "charencode">>, <<"charencode", "charencode">>}

InitTamper ==
    /\ pc = "tc_chain"
    /\ conf = NoConf
    /\ call = [NoCall EXCEPT !.entry = "apply_tamper_chain"]
    /\ \E p \in Payloads, g \in Stages, t \in TechniqueTypes, u \in UserSelected :
           tc = [NoTc EXCEPT !.payload = p, !.stage = g, !.technique_type = t,
                             !.user_selected = u]
    /\ target = [value |-> <<>>, filtered |-> {}, mode |-> "truthful"]
    /\ storage = NoRow
    /\ gl = NoGl /\ po = NoPo /\ fc = NoFc /\ srch = NoSearch
    /\ ret = 0 /\ result = NoResult /\ obs = NoObs
    /\ ie = NoIe /\ dt = NoDt /\ fp = NoFp /\ db = NoDb /\ cmp = NoCmp
    /\ tm = NoTm

NextTamper == TamperChain \/ TamperStep \/ TamperReturn

SpecTamper == InitTamper /\ [][NextTamper]_vars

\* ------------------------------------------------------------ GhauriConfig
\* GhauriConfig.__post_init__ (threads None is 0)
post_init(c) ==
    IF c.threads # 0 /\ c.threads > max_threads
    THEN [c EXCEPT !.threads = max_threads] ELSE c

\* setattr(conf, "threads", v) of misc_options under "if v is not None"
SetThreads(c, v) == IF v # 0 THEN [c EXCEPT !.threads = v] ELSE c

\* The --ignore-code strings of the command line
IgnoreCodeOptions == {Str(TRUE, <<>>), Str(FALSE, <<>>), Str(FALSE, <<401>>)}

\* misc_options: every option given is assigned to conf as it is
MiscOptions ==
    /\ pc = "constructed"
    /\ \E threads \in 0..MaxThreads, fresh_queries \in BOOLEAN,
          ignore_code \in IgnoreCodeOptions, given \in BOOLEAN :
        conf' = [SetThreads(conf, threads) EXCEPT
                    !.fresh_queries = fresh_queries,
                    !.ignore_code = IF given THEN ignore_code ELSE @]
    /\ pc' = "configured"
    /\ UNCHANGED <<call, target, storage, gl, po, fc, srch, ret, result, obs, ie, dt, fp, tc, db, cmp>>
    /\ UNCHANGED tm

\* run: "Update conf from CLI"
RunOptions ==
    /\ pc = "configured"
    /\ \E fetch_using \in FetchUsing : conf' = [conf EXCEPT !.fetch_using = fetch_using]
    /\ pc' = "running"
    /\ UNCHANGED <<call, target, storage, gl, po, fc, srch, ret, result, obs, ie, dt, fp, tc, db, cmp>>
    /\ UNCHANGED tm

\* GhauriConfig(threads=...), the singleton being GhauriConfig()
InitConfig ==
    /\ pc = "constructed"
    /\ \E threads \in 0..MaxThreads : conf = post_init([NoConf EXCEPT !.threads = threads])
    /\ call = [NoCall EXCEPT !.entry = "GhauriConfig"]
    /\ target = [value |-> <<>>, filtered |-> {}, mode |-> "truthful"]
    /\ storage = NoRow
    /\ gl = NoGl /\ po = NoPo /\ fc = NoFc /\ srch = NoSearch
    /\ ret = 0 /\ result = NoResult /\ obs = NoObs
    /\ ie = NoIe /\ dt = NoDt /\ fp = NoFp /\ tc = NoTc /\ db = NoDb /\ cmp = NoCmp
    /\ tm = NoTm

NextConfig == MiscOptions \/ RunOptions

SpecConfig == InitConfig /\ [][NextConfig]_vars

\* ------------------------------------------- persisting injection records
Endpoints == {"/item", "/search"}
Parameters == {"id", "q"}
PayloadTypes == {"boolean-based", "time-based"}

\* One persist operation on the injections table
Persist ==
    /\ pc = "session"
    /\ db.dumps < MaxDumps
    /\ db.error = NoneV
    /\ \E endpoint \in Endpoints, parameter \in Parameters, payload_type \in PayloadTypes :
        db' = dump(db, endpoint, parameter, payload_type)
    /\ UNCHANGED <<pc, conf, call, target, storage, gl, po, fc, srch, ret, result, obs, ie, dt, fp, tc, cmp>>
    /\ UNCHANGED tm

\* The session file after initialize_database: created by it from
\* SESSION_SCHEMA of session.py, or a file that was there, left as it is
InitSession ==
    /\ pc = "session"
    /\ conf = NoConf
    /\ call = [NoCall EXCEPT !.entry = "session.dump"]
    /\ \E schema \in {"session.py", "lib.py"} : db = [NoDb EXCEPT !.schema = schema]
    /\ target = [value |-> <<>>, filtered |-> {}, mode |-> "truthful"]
    /\ storage = NoRow
    /\ gl = NoGl /\ po = NoPo /\ fc = NoFc /\ srch = NoSearch
    /\ ret = 0 /\ result = NoResult /\ obs = NoObs
    /\ ie = NoIe /\ dt = NoDt /\ fp = NoFp /\ tc = NoTc /\ cmp = NoCmp
    /\ tm = NoTm

NextSession == Persist

SpecSession == InitSession /\ [][NextSession]_vars

\* ------------------------------------------------------ the response oracle
\* Tolerance of the content-length case
Epsilon == 0

Abs(x) == IF x < 0 THEN -x ELSE x

\* The oracle with a text case that either the true or the false response
\* satisfies
compare_Either(B, T, F, text_only) ==
    IF T.status = B.status /\ F.status # B.status THEN Compared(TRUE, "status")
    ELSE IF ~text_only /\ Abs(T.len - B.len) <= Epsilon /\ Abs(F.len - B.len) > Epsilon
         THEN Compared(TRUE, "length")
    ELSE IF T.sim >= 98 \/ F.sim < 95 THEN Compared(TRUE, "text")
    ELSE Compared(FALSE, NoneV)

\* compare(B, T, F) without code and match strings: status divergence, then
\* content length (disabled by text_only), then text similarity; the first
\* hit wins
compare(B, T, F, text_only) ==
    IF T.status = B.status /\ F.status # B.status THEN Compared(TRUE, "status")
    ELSE IF ~text_only /\ Abs(T.len - B.len) <= Epsilon /\ Abs(F.len - B.len) > Epsilon
         THEN Compared(TRUE, "length")
    ELSE IF T.sim >= 98 /\ F.sim < 95 THEN Compared(TRUE, "text")
    ELSE Compared(FALSE, NoneV)

\* compare(B, T, F)
Compare ==
    /\ pc = "compare"
    /\ cmp' = [cmp EXCEPT !.forward = compare(cmp.B, cmp.T, cmp.F, cmp.text_only)]
    /\ pc' = "swap"
    /\ UNCHANGED <<conf, call, target, storage, gl, po, fc, srch, ret, result, obs, ie, dt, fp, tc, db>>
    /\ UNCHANGED tm

\* compare(B, F, T)
CompareSwapped ==
    /\ pc = "swap"
    /\ cmp' = [cmp EXCEPT !.swapped = compare(cmp.B, cmp.F, cmp.T, cmp.text_only)]
    /\ pc' = "done"
    /\ UNCHANGED <<conf, call, target, storage, gl, po, fc, srch, ret, result, obs, ie, dt, fp, tc, db>>
    /\ UNCHANGED tm

Statuses == {200, 500}
Lengths == {10, 12}
Similarities == {100, 96, 90}
Responses == {Resp(st, n, sim) : st \in Statuses, n \in Lengths, sim \in Similarities}

\* The baseline is as similar to itself as can be
InitCompare ==
    /\ pc = "compare"
    /\ conf = NoConf
    /\ call = [NoCall EXCEPT !.entry = "compare"]
    /\ \E st \in Statuses, n \in Lengths, T \in Responses, F \in Responses, t \in BOOLEAN :
           cmp = [NoCmp EXCEPT !.B = Resp(st, n, 100), !.T = T, !.F = F, !.text_only = t]
    /\ target = [value |-> <<>>, filtered |-> {}, mode |-> "truthful"]
    /\ storage = NoRow
    /\ gl = NoGl /\ po = NoPo /\ fc = NoFc /\ srch = NoSearch
    /\ ret = 0 /\ result = NoResult /\ obs = NoObs
    /\ ie = NoIe /\ dt = NoDt /\ fp = NoFp /\ tc = NoTc /\ db = NoDb
    /\ tm = NoTm

NextCompare == Compare \/ CompareSwapped

SpecCompare == InitCompare /\ [][NextCompare]_vars

\* ------------------------------------------------- the tamper methods
\* Characters of the payloads handed to a tamper
PayloadChars == {"o", "R", " ", "="}

\* str.upper / str.lower / ord of one character
upper(c) == CASE c = "o" -> "O" [] c = "r" -> "R" [] OTHER -> c
lower(c) == CASE c = "O" -> "o" [] c = "R" -> "r" [] OTHER -> c
ord(c) == CASE c = "o" -> 111 [] c = "O" -> 79 [] c = "r" -> 114 [] c = "R" -> 82
            [] c = " " -> 32 [] OTHER -> 61

\* [a-zA-Z] and \s
IsLetter(c) == c \in {"o", "O", "r", "R"}
IsSpace(c) == c = " "

\* TamperResult(payload, applied, confidence), confidence in hundredths; None
TamperResult(payload, applied, confidence) ==
    [none |-> FALSE, payload |-> payload, applied |-> applied, confidence |-> confidence]
TamperNone == [none |-> TRUE, payload |-> <<>>, applied |-> <<>>, confidence |-> 0]

\* RandomCase.KEYWORDS
KEYWORDS ==
    {<<"S", "E", "L", "E", "C", "T">>,
     <<"U", "N", "I", "O", "N">>,
     <<"A", "L", "L">>,
     <<"F", "R", "O", "M">>,
     <<"W", "H", "E", "R", "E">>,
     <<"A", "N", "D">>,
     <<"O", "R">>,
     <<"S", "L", "E", "E", "P">>,
     <<"B", "E", "N", "C", "H", "M", "A", "R", "K">>,
     <<"W", "A", "I", "T", "F", "O", "R">>,
     <<"D", "E", "L", "A", "Y">>,
     <<"I", "F">>,
     <<"C", "A", "S", "E">>}

\* The match of \b[a-zA-Z]+\b that covers position i of p, a letter
WordAt(p, i) ==
    LET from == CHOOSE j \in 1..i :
                    /\ \A k \in j..i : IsLetter(p[k])
                    /\ j = 1 \/ ~IsLetter(p[j - 1])
        to == CHOOSE j \in i..Len(p) :
                    /\ \A k \in i..j : IsLetter(p[k])
                    /\ j = Len(p) \/ ~IsLetter(p[j + 1])
    IN  SubSeq(p, from, to)

UpperWord(w) == [k \in 1..Len(w) |-> upper(w[k])]

\* re.sub of RandomCase.tamper: every character of a match that is a keyword
\* becomes random.choice([c.upper(), c.lower()]); what it can return
RandomCased(p) ==
    {q \in [1..Len(p) -> {upper(c) : c \in PayloadChars} \cup {lower(c) : c \in PayloadChars}] :
        \A i \in 1..Len(p) :
            IF IsLetter(p[i]) /\ UpperWord(WordAt(p, i)) \in KEYWORDS
            THEN q[i] \in {upper(p[i]), lower(p[i])}
            ELSE q[i] = p[i]}

\* RandomCase.tamper: the results it can return
RandomCase(p) ==
    {IF q = p THEN TamperNone ELSE TamperResult(q, <<"randomcase">>, 75) : q \in RandomCased(p)}

\* str.strip
RECURSIVE Strip(_)
Strip(p) ==
    IF p = <<>> THEN p
    ELSE IF IsSpace(Head(p)) THEN Strip(Tail(p))
    ELSE IF IsSpace(p[Len(p)]) THEN Strip(SubSeq(p, 1, Len(p) - 1))
    ELSE p

\* f"%{ord(c):02X}"
HexDigits == <<"0", "1", "2", "3", "4", "5", "6", "7", "8", "9", "A", "B", "C", "D", "E", "F">>
Encoded(c) == <<"%", HexDigits[(ord(c) \div 16) + 1], HexDigits[(ord(c) % 16) + 1]>>

RECURSIVE EncodeAll(_)
EncodeAll(p) == IF p = <<>> THEN <<>> ELSE Encoded(Head(p)) \o EncodeAll(Tail(p))

\* CharEncode.tamper
CharEncode(p) ==
    IF Strip(p) = <<>> THEN {TamperNone}
    ELSE {TamperResult(EncodeAll(p), <<"charencode">>, 88)}

\* repl of Space2Comment.tamper on a match of \s+
Space2CommentRepl(match) ==
    IF Strip(match) # <<>> THEN <<"/", "*", "*", "/">> ELSE match

\* re.sub(r"\s+", repl, payload)
RECURSIVE Space2Commented(_)
Space2Commented(p) ==
    IF p = <<>> THEN <<>>
    ELSE IF ~IsSpace(Head(p)) THEN <<Head(p)>> \o Space2Commented(Tail(p))
    ELSE LET n == CHOOSE j \in 1..Len(p) :
                      /\ \A k \in 1..j : IsSpace(p[k])
                      /\ j = Len(p) \/ ~IsSpace(p[j + 1])
         IN  Space2CommentRepl(SubSeq(p, 1, n)) \o Space2Commented(SubSeq(p, n + 1, Len(p)))

\* Space2Comment.tamper
Space2Comment(p) ==
    IF Space2Commented(p) = p THEN {TamperNone}
    ELSE {TamperResult(Space2Commented(p), <<"space2comment">>, 92)}

\* tamper(payload, context) of the named tamper: what it can return (no
\* tamper reads the context)
tamper(name, payload) ==
    CASE name = "randomcase" -> RandomCase(payload)
      [] name = "charencode" -> CharEncode(payload)
      [] OTHER               -> Space2Comment(payload)

\* One application of the tamper to the payload
TamperCall ==
    /\ pc = "tamper"
    /\ Len(tm.returned) < 2
    /\ \E r \in tamper(tm.tamper, tm.payload) : tm' = [tm EXCEPT !.returned = Append(@, r)]
    /\ pc' = IF Len(tm.returned) = 1 THEN "done" ELSE pc
    /\ UNCHANGED <<conf, call, target, storage, gl, po, fc, srch, ret, result, obs, ie, dt, fp, tc, db, cmp>>

TamperPayloads == SeqsOf(PayloadChars, MaxChars)

InitTamperCall ==
    /\ pc = "tamper"
    /\ conf = NoConf
    /\ call = [NoCall EXCEPT !.entry = "tamper"]
    /\ \E n \in 1..Len(ALL_TAMPERS), p \in TamperPayloads :
           tm = [NoTm EXCEPT !.tamper = ALL_TAMPERS[n].name, !.payload = p]
    /\ target = [value |-> <<>>, filtered |-> {}, mode |-> "truthful"]
    /\ storage = NoRow
    /\ gl = NoGl /\ po = NoPo /\ fc = NoFc /\ srch = NoSearch
    /\ ret = 0 /\ result = NoResult /\ obs = NoObs
    /\ ie = NoIe /\ dt = NoDt /\ fp = NoFp /\ tc = NoTc /\ db = NoDb /\ cmp = NoCmp

NextTamperCall == TamperCall

SpecTamperCall == InitTamperCall /\ [][NextTamperCall]_vars

\* ---- claims ----

\* smallest k with 2^k >= n
RECURSIVE CeilLog2(_)
CeilLog2(n) == IF n <= 1 THEN 0 ELSE 1 + CeilLog2((n + 1) \div 2)

\* A _char_* method called alone has returned (it did not raise)
DirectReturned(fn) ==
    pc = "done" /\ call.entry = fn /\ result.kind = "none"

DefaultRange == srch.min_ord = MinOrd /\ srch.max_ord = MaxOrd

\* C1: with a truthful oracle, _char_binary_gt over [32,127] returns the
\* character at the probed position, for every character with ordinal in
\* 32..127.
C1_BinaryGtReturnsChar ==
    (/\ DirectReturned("binary")
     /\ DefaultRange
     /\ target.mode = "truthful"
     /\ Len(target.value) = 1
     /\ target.value[1] \in MinOrd..MaxOrd)
        => ret = target.value[1]

\* C10: for every range [min_ord, max_ord] and every oracle, monotone or not,
\* the loop of _char_binary_gt and _char_between has sent at most
\* ceil(log2(max_ord - min_ord + 1)) + 1 probes in any one run of the method,
\* at most 8 over [32,127] and at most 5 over [48,57]; each iteration sends
\* one, so the loop ends.
C10_ProbeBound ==
    call.entry \in {"binary", "between"}
        => /\ srch.probes <= CeilLog2(srch.max_ord - srch.min_ord + 1) + 1
           /\ (DefaultRange => srch.probes <= 8)
           /\ (srch.min_ord = DigitMin /\ srch.max_ord = DigitMax => srch.probes <= 5)

\* C10 witness: a search over [32,127] that returned after 7 probes, under an
\* oracle that is not truthful for any value
C10_Witness ==
    /\ DirectReturned("between")
    /\ DefaultRange
    /\ target.mode = "any"
    /\ srch.probes = 7

\* ---- fetch_characters ----
FetchCall == call.entry = "fetch_characters"

\* The call started on a complete / a partial row it is allowed to read
CompleteStored ==
    /\ FetchCall /\ UsesStorage /\ obs.store0.present
    /\ Len(obs.store0.value) = obs.store0.length
PartialStored ==
    /\ FetchCall /\ UsesStorage /\ obs.store0.present
    /\ 0 < Len(obs.store0.value) /\ Len(obs.store0.value) < obs.store0.length

\* The call got as far as the character loop
Extracting == pc \in {"resume", "loop"} \/ (pc = "done" /\ result.strategy # NoneV)

\* C2: with dump_type set, fresh_queries unset and a stored row whose value
\* has the stored length, fetch_characters returns the stored value marked
\* resumed, having sent no request and written nothing; invoked again it
\* returns the same result.
C2_ResumeComplete ==
    (CompleteStored /\ pc # "start")
        => /\ pc = "done"
           /\ result = CharResult(TRUE, obs.store0.value, NoneV, "", TRUE)
           /\ obs.sent = {}
           /\ ~obs.wrote
           /\ storage = obs.store0
           /\ (obs.prev.kind = "CharResult" => result = obs.prev)

\* C2 witness: a second invocation has returned the stored value as the first did
C2_Witness ==
    /\ CompleteStored /\ pc = "done"
    /\ result.resumed /\ obs.prev.resumed
    /\ Len(result.value) = 2

\* C3: every row the engine writes has len(value) <= length, and
\* len(value) = length exactly when the extraction is complete: the
\* error-based path returned the whole value, or the character loop has just
\* extracted position length (the positions before it extracted earlier).
C3_WrittenRows ==
    (FetchCall /\ obs.wrote)
        => /\ storage.present
           /\ Len(storage.value) <= storage.length
           /\ storage.length = obs.written.length
           /\ (obs.written.via = "loop" => Len(storage.value) = obs.written.upto)
           /\ (Len(storage.value) = storage.length
                 <=> (obs.written.via = "error" \/ obs.written.upto = obs.written.length))

\* C3 witness: the character loop wrote a row that is still partial
C3_Witness ==
    /\ FetchCall /\ obs.wrote /\ obs.written.via = "loop"
    /\ Len(storage.value) = 1 /\ storage.length = 2

C5_NoLengthDiscovery ==
    PartialStored
        => /\ "noc" \notin obs.sent
           /\ "digit" \notin obs.sent
           /\ (pc \in {"operator", "resume", "loop"} => fc.length = obs.store0.length)

\* C6: without a forced strategy probe_operator sends its probes in the order
\* BINARY_GT, BETWEEN, IN_OPERATOR, LINEAR_EQ, sends none after a probe was
\* judged true, and returns the strategy of that first agreeing probe.
C6_FirstAgreeing ==
    (FetchCall /\ ~Forced)
        => /\ \A k \in 1..Len(obs.opLog) :
                 /\ k <= Len(Strategies)
                 /\ obs.opLog[k].strategy = Strategies[k]
                 /\ (k < Len(obs.opLog) => ~obs.opLog[k].vulnerable)
           /\ (Extracting
                 => /\ obs.opLog # <<>>
                    /\ obs.opLog[Len(obs.opLog)].vulnerable
                    /\ fc.strategy = obs.opLog[Len(obs.opLog)].strategy)

\* C6 witness: IN_OPERATOR was selected after BINARY_GT and BETWEEN failed
C6_Witness ==
    /\ FetchCall /\ ~Forced /\ pc = "loop"
    /\ fc.strategy = "IN_OPERATOR" /\ Len(obs.opLog) = 3

C8_AllFilteredFatal ==
    (FetchCall /\ (obs.exhausted > 0 \/ result.error = AllFiltered))
        => /\ obs.exhausted = 1
           /\ pc = "done"
           /\ result = Raised("RuntimeError", AllFiltered)
           /\ Len(obs.opLog) = Len(ProbeList(conf.fetch_using))
           /\ \A k \in 1..Len(obs.opLog) : ~obs.opLog[k].vulnerable
           /\ "char" \notin obs.sent
           /\ obs.probed = {}
           /\ storage = obs.store0

\* C8 witness: all four probes failed on the second attempt of probe_operator
C8_Witness ==
    /\ FetchCall /\ pc = "done" /\ result.error = AllFiltered
    /\ Len(obs.opLog) = 4 /\ po.attempt = 2 /\ obs.store0.present

\* C9: with conf.fetch_using = "in", every ">" comparison filtered and IN
\* answered truthfully, fetch_characters returns the complete value.
C9_InRecoversValue ==
    (/\ FetchCall /\ pc = "done"
     /\ conf.fetch_using = "in" /\ ~conf.error_vector
     /\ target.filtered = {">"} /\ target.value # <<>>
     /\ call.vector_type = "boolean" /\ call.attack01 /\ call.backend = "MySQL"
     /\ obs.store0 = NoRow
     /\ result.kind = "CharResult")
        => /\ result.success
           /\ result.value = target.value

\* The character loop broke at position p: the call for p returned ""
FailedAt(p) ==
    /\ FetchCall /\ pc = "done" /\ result.error = "incomplete"
    /\ p = Len(result.value) + 1 /\ p <= fc.length /\ p \in obs.probed

\* C11: when the extraction of the character at position p yields "", the
\* same position is attempted again, conf.retry = 3 attempts in all, before
\* the extraction is reported incomplete.
C11_RetryEmptyChar ==
    \A p \in 1..MaxLen : FailedAt(p) => obs.calls[p] = retry

\* C12: with dump_type set and fresh_queries unset, after each character the
\* loop accepted and before the next position is probed the row holds the
\* characters accepted so far and the length L; when the loop breaks at
\* position p the result is incomplete, its value is the characters of the
\* positions before p, and the row holds that same value (there is no row
\* when no character was ever accepted).
C12_PersistEachChar ==
    (FetchCall /\ UsesStorage)
        => /\ (pc = "loop" /\ obs.probed # {}
                 => /\ storage = Row(fc.chars, fc.length)
                    /\ Len(fc.chars) = fc.pos - 1)
           /\ \A p \in 1..MaxLen :
                 FailedAt(p)
                     => /\ ~result.success
                        /\ result.value = fc.chars
                        /\ \A q \in obs.probed : q <= p
                        /\ storage.value = result.value
                        /\ (storage.present <=> result.value # <<>>)
                        /\ (obs.wrote => storage = Row(result.value, fc.length))

\* C12 witness: the loop accepted position 1, wrote it, and broke at position 2
C12_Witness ==
    /\ FetchCall /\ UsesStorage /\ FailedAt(2)
    /\ obs.store0 = NoRow /\ storage = Row(result.value, 2)

\* C13: when character extraction runs with vector_type = "time",
\* conf.threads is cleared before the first character probe is sent.
C13_TimeDisablesThreads ==
    (FetchCall /\ call.vector_type = "time" /\ pc = "loop") => conf.threads = 0

\* C14: no expression the engine hands to inject_expression for an operator
\* probe, for length discovery or for character extraction contains
\* [INFERENCE], [SLEEPTIME] or [RANDNUM].
C14_NoPlaceholderLeft ==
    FetchCall => obs.leaked = {}

\* ---- inject_expression ----
InjectCall == call.entry = "inject_expression"

\* 401 is covered by conf.ignore_code: "*", or a list that contains 401
Covers401(ignore_code) ==
    IF ignore_code.type = "str" THEN 401 \in parsed_ignore_codes(ignore_code)
    ELSE \E k \in 1..Len(ignore_code.items) : ignore_code.items[k] = 401

\* The attempt yielded a response that is not a fatal 401
Observation(o) ==
    o.kind = "response" /\ (o.status = 401 => Covers401(conf.ignore_code))

\* C15: one call of inject_expression makes at most 5 transport attempts; when
\* every attempt failed it ends by raising and returns no response; it
\* returns as soon as one attempt yields a response.
C15_AtMostFiveAttempts ==
    InjectCall
        => /\ Len(ie.log) <= MAX_RETRIES
           /\ (pc = "done" /\ (\A k \in 1..Len(ie.log) : ie.log[k].kind # "response")
                 => ie.outcome = "raise")
           /\ \A k \in 1..Len(ie.log) :
                 Observation(ie.log[k])
                     => /\ k = Len(ie.log)
                        /\ pc = "done"
                        /\ ie.outcome = "return"
                        /\ ie.status = ie.log[k].status

\* C16: a 401 response ends the run with exit status 1 on its first
\* occurrence, with no further transport attempt, unless conf.ignore_code
\* covers 401 ("*" or a list containing 401); then the 401 response is
\* returned to the caller.
C16_Unauthorized ==
    InjectCall
        => \A k \in 1..Len(ie.log) :
              ie.log[k] = Response(401)
                  => /\ k = Len(ie.log)
                     /\ pc = "done"
                     /\ IF Covers401(conf.ignore_code)
                        THEN ie.outcome = "return" /\ ie.status = 401
                        ELSE ie.outcome = "raise" /\ ie.exc = "SystemExit(1)"

\* A call of test_and_confirm_injection
DetectCall == call.entry = "test_and_confirm_injection"

\* confirm_boolean_injection has returned
Confirmed == DetectCall /\ dt.bool_confirm # NoneV

\* C17: after the CONNECT request detection goes directly to RESUME exactly
\* when the parameter is among the persisted records of the endpoint and
\* fresh_queries is unset; with fresh_queries set the records never
\* short-circuit detection.
C17_ResumeShortCircuit ==
    (DetectCall /\ Len(dt.stages) >= 2) =>
        /\ (dt.stages[2] = "RESUME") <=> (dt.rows = "parameter" /\ ~conf.fresh_queries)
        /\ conf.fresh_queries => dt.stages[2] # "RESUME"

\* C18: confirm_boolean_injection has five identity pairs, three when
\* response_time > 8, runs all of them unless the content-length filter
\* breaks the loop, and returns vulnerable exactly when the accepted
\* observations are at least 0.8 of twice the number of pairs, or at least
\* 0.7 when response_time > 8; 2 agreeing pairs out of 5 are rejected.
C18_ConfirmThreshold ==
    Confirmed =>
        /\ dt.test_cases = (IF dt.response_time > 8 THEN 3 ELSE 5)
        /\ dt.mismatch = 0 => dt.i = dt.test_cases
        /\ (dt.bool_confirm = "accepted") <=>
              \/ 10 * dt.results >= 8 * (2 * dt.test_cases)
              \/ (dt.response_time > 8 /\ 10 * dt.results >= 7 * (2 * dt.test_cases))
        /\ (dt.test_cases = 5 /\ dt.results = 2 * 2) => dt.bool_confirm = "rejected"

\* C18: five pairs were run, two of them agreed, and the injection was
\* rejected.
C18_Witness ==
    /\ Confirmed
    /\ dt.test_cases = 5 /\ dt.i = 5 /\ dt.results = 4
    /\ dt.bool_confirm = "rejected"

\* C19: a content-length pair whose response lengths do not match those
\* observed at detection invalidates the injection, whichever pair it is:
\* confirm_boolean_injection returns not vulnerable.
C19_MismatchInvalidates ==
    (Confirmed /\ dt.mismatch # 0) => dt.bool_confirm = "rejected"

\* C20: every boolean-based record written to the session was accepted by
\* confirm_boolean_injection in the same run, error-based detection or not.
C20_BooleanRecordsConfirmed ==
    DetectCall =>
        \A k \in 1..Len(dt.saved) :
            dt.saved[k] = "boolean-based" => dt.bool_confirm = "accepted"

\* The technique was detected and confirmation did not reject it
Kept(technique) ==
    CASE technique = "error-based" -> dt.is_error
      [] technique = "boolean-based" -> dt.is_bool /\ dt.bool_confirm # "rejected"
      [] OTHER -> dt.is_time

\* C21: whenever test_and_confirm_injection reports the parameter vulnerable,
\* a record was written to the session for every technique that was detected
\* and not rejected by confirmation; boolean-based confirmed and time-based
\* detected means both were written.
C21_EveryVectorPersisted ==
    (DetectCall /\ dt.outcome = "vulnerable") =>
        \A technique \in {"error-based", "boolean-based", "time-based"} :
            Kept(technique) => \E k \in 1..Len(dt.saved) : dt.saved[k] = technique

\* A call of FingerPrintDBMS.fingerprint that has returned
Fingerprinted == call.entry = "fingerprint" /\ pc = "done"

\* The confirmation pair of the DBMS was sent and passed
ConfirmationPassed(dbms) ==
    \E n \in 1..Len(fp.log) :
        fp.log[n].dbms = dbms /\ fp.log[n].pair = "confirmation" /\ fp.log[n].passed

\* C22: fingerprint reports a DBMS only if that DBMS's confirmation pair
\* passed; a DBMS whose heuristic pair passed and whose confirmation pair
\* failed is not reported and the next candidate is tried; when no
\* confirmation passes the result is unknown.
C22_ReportedIsConfirmed ==
    Fingerprinted =>
        /\ fp.returned.dbms # NoneV => ConfirmationPassed(fp.returned.dbms)
        /\ (\A n \in 1..Len(Candidates) : ~ConfirmationPassed(Candidates[n])) =>
               fp.returned.dbms = NoneV

\* A call of apply_tamper_chain that is over
Tampered == call.entry = "apply_tamper_chain" /\ pc = "done"

\* C23: apply_tamper_chain returns the left fold of its chain: the payload
\* unchanged, applied = [] and confidence 1.0 for the empty chain; for a
\* non-empty chain every tamper is applied in turn to the output of the one
\* before and the result is returned.
C23_LeftFold ==
    Tampered =>
        /\ tc.outcome = "returned"
        /\ tc.i = Len(tc.chain)
        /\ tc.chain = <<>> =>
              tc.current = tc.payload /\ tc.applied = <<>> /\ tc.confidence = 100

\* C24: in every state of a scan conf.threads is unset or at most
\* max_threads, whether it was given to the constructor or assigned from the
\* command line afterwards.
C24_ThreadsCapped ==
    call.entry = "GhauriConfig" => (conf.threads = 0 \/ conf.threads <= max_threads)

\* Rows of tbl_payload with the key (endpoint, serialized parameter) of row r
SameKey(r) ==
    {n \in 1..Len(db.rows) :
        db.rows[n].endpoint = r.endpoint /\ db.rows[n].parameter = r.parameter}

\* C25: the injections table has upsert semantics on (endpoint, serialized
\* parameter): after any sequence of persist operations there is at most one
\* record per key, and the record persisted last is the one the table holds
\* for its key.
C25_UpsertOnKey ==
    (call.entry = "session.dump" /\ db.dumps > 0) =>
        /\ \A n \in 1..Len(db.rows) : SameKey(db.rows[n]) = {n}
        /\ \E n \in SameKey(db.last) : db.rows[n].payload_type = db.last.payload_type

\* Both calls of the oracle have returned, the first one vulnerable
BothCompared ==
    /\ call.entry = "compare" /\ pc = "done"
    /\ cmp.forward.vulnerable /\ cmp.forward.case \in {"status", "length", "text"}

\* C26: whenever compare(B, T, F) is vulnerable with case status, length or
\* text, compare(B, F, T) is not vulnerable.
C26_Antisymmetric ==
    BothCompared => ~cmp.swapped.vulnerable

\* C26 as amended: whenever compare(B, T, F) is vulnerable with case status,
\* length or text, compare(B, F, T) is not vulnerable with that same case.
C26_AntisymmetricPerCase ==
    BothCompared => ~(cmp.swapped.vulnerable /\ cmp.swapped.case = cmp.forward.case)

\* C26: a pair that is vulnerable on the content-length case and whose
\* swapped pair is not vulnerable.
C26_Witness ==
    BothCompared /\ cmp.forward.case = "length" /\ ~cmp.swapped.vulnerable

\* A _char_* method called alone on a truthful endpoint whose value is the one
\* character c, over [32,127]
TruthfulChar(fn, c) ==
    /\ call.entry = fn
    /\ DefaultRange
    /\ target.mode = "truthful"
    /\ target.value = <<c>>

\* C27: extracting the character with ordinal 65 by _char_binary_gt over
\* [32,127] with the time oracle has issued exactly 7 probes when the method
\* returns.
C27_SevenProbes ==
    (/\ DirectReturned("binary")
     /\ TruthfulChar("binary", 65)
     /\ call.vector_type = "time")
        => srch.probes = 7

\* C28: with a truthful oracle _char_linear returns the character at the
\* probed position for every character with ordinal in 32..127, in the
\* heuristic alphabet or not ('/' and ':' are not).
C28_LinearRecoversAll ==
    \A c \in MinOrd..MaxOrd :
        (DirectReturned("linear") /\ TruthfulChar("linear", c)) => ret = c

\* 2^k
RECURSIVE Pow2(_)
Pow2(k) == IF k = 0 THEN 1 ELSE 2 * Pow2(k - 1)

\* C29: with a truthful membership oracle and a character with ordinal in
\* 32..127, _char_in over [32,127] halves the candidate list on every probe
\* (after k probes it holds 96 / 2^k candidates, rounded down or up, the
\* character among them), has sent at most 7 probes, and returns, with
\* exactly one candidate left, the character.
C29_InHalves ==
    \A c \in MinOrd..MaxOrd :
        TruthfulChar("in", c) =>
            LET n == MaxOrd - MinOrd + 1
                d == Pow2(srch.probes)
            IN  /\ srch.probes <= 7
                /\ n \div d <= Len(srch.candidates)
                /\ Len(srch.candidates) <= (n + d - 1) \div d
                /\ InSeq(c, srch.candidates)
                /\ DirectReturned("in") =>
                       /\ Len(srch.candidates) = 1
                       /\ ret = c

\* C29 witness: _char_in returned the character after 7 probes
C29_Witness ==
    /\ DirectReturned("in")
    /\ \E c \in MinOrd..MaxOrd : TruthfulChar("in", c) /\ ret = c
    /\ srch.probes = 7
    /\ Len(srch.candidates) = 1

\* C30: with a truthful oracle that filters nothing, once _get_output_length
\* has extracted length digits and returned, the length fetch_characters
\* holds is the number of characters of the queried value.
C30_TrueLength ==
    (/\ FetchCall
     /\ target.mode = "truthful" /\ target.filtered = {}
     /\ target.value # <<>>
     /\ "digit" \in obs.sent
     /\ pc \in {"operator", "resume", "loop"} \/ (pc = "done" /\ result.kind = "CharResult"))
        => fc.length = Len(target.value)

\* The stability check / the heuristic of the running detection is over
StabilityDone == DetectCall /\ InSeq("STABILITY", dt.stages)
HeuristicDone ==
    DetectCall /\ InSeq("HEURISTIC", dt.stages) /\ pc # "heuristic"

\* C31: after STABILITY the endpoint is marked dynamic and text-only
\* comparison is forced exactly when the two baseline responses disagree in
\* content_length or in their sets of filtered lines.
C31_DisagreementMarksDynamic ==
    StabilityDone =>
        /\ dt.is_dynamic <=> (~dt.same_length \/ ~dt.stable)
        /\ dt.text_only <=> (~dt.same_length \/ ~dt.stable)

\* C32: HEURISTIC sends its breakers in order until the first response with
\* a DBMS error signature: when it ended without a signature every breaker
\* of the list was sent, and detection went on.
C32_ScanUntilSignature ==
    HeuristicDone =>
        /\ dt.possible_dbms = NoneV => dt.breakers = Len(test_expressions)
        /\ dt.outcome # "not injectable" => InSeq("DETECT", dt.stages) \/ pc = "detect"

\* C37: basic_connection_and_heuristic_check returns a BasicCheckResponse on
\* every path; with persisted records of the endpoint that name another
\* parameter it does not raise, and STABILITY and HEURISTIC are run.
C37_BasicCheckCompletes ==
    (DetectCall /\ pc # "connect") =>
        /\ dt.outcome # "UnboundLocalError"
        /\ dt.rows = "others" => dt.stages[2] = "STABILITY"

\* C38: the vectors of a DetectionResult that test_and_confirm_injection
\* built hold boolean_vector only if confirm_boolean_injection accepted the
\* boolean injection or error-based was detected.
C38_NoRejectedBooleanVector ==
    (DetectCall /\ dt.outcome = "vulnerable" /\ "boolean_vector" \in dt.vectors)
        => (dt.bool_confirm = "accepted" \/ dt.is_error)

\* The DBMS families of the pairs sent so far, in the order in which
\* fingerprint turned to them
RECURSIVE Families(_)
Families(log) ==
    IF log = <<>> THEN <<>>
    ELSE LET before == Families(SubSeq(log, 1, Len(log) - 1))
             dbms == log[Len(log)].dbms
         IN  IF before # <<>> /\ before[Len(before)] = dbms THEN before
             ELSE Append(before, dbms)

ProbabilityOrder == <<"MySQL", "PostgreSQL", "Microsoft SQL Server", "Oracle">>

\* C33: fingerprint turns to the DBMS families in the order MySQL,
\* PostgreSQL, Microsoft SQL Server, Oracle, to each one when all earlier
\* ones failed: it reports no DBMS only after the pairs of all four.
C33_FourFamiliesInOrder ==
    call.entry = "fingerprint" =>
        /\ IsPrefix(Families(fp.log), ProbabilityOrder)
        /\ (Fingerprinted /\ fp.returned.dbms = NoneV) =>
               Families(fp.log) = ProbabilityOrder

\* C34: in inject_expression only the retryable transport failures lead to
\* another attempt: an attempt that raised any other exception is the last
\* one, and the call raises that exception.
C34_OnlyTransportRetried ==
    InjectCall
        => \A k \in 1..Len(ie.log) :
              ie.log[k] = Fails("Exception")
                  => /\ k = Len(ie.log)
                     /\ pc = "done"
                     /\ ie.outcome = "raise" /\ ie.exc = "Exception"

\* get_tamper_chain has returned to apply_tamper_chain
ChainBuilt == call.entry = "apply_tamper_chain" /\ pc # "tc_chain"

\* The names of the tampers of the chain, in the order of the chain
ChainNames == [k \in 1..Len(tc.chain) |-> tc.chain[k].cls]

\* Registered tampers: by name; by name for the stage of the call; for the
\* stage and technique of the call
Registered(name) == \E n \in 1..Len(ALL_TAMPERS) : ALL_TAMPERS[n].name = name
OfStage(name) ==
    \E n \in 1..Len(ALL_TAMPERS) :
        ALL_TAMPERS[n].name = name /\ ALL_TAMPERS[n].stage = tc.stage
Matching(t) ==
    /\ t.stage = tc.stage
    /\ tc.technique_type = NoneV \/ tc.technique_type \in t.applies_to
ByName(name) == ALL_TAMPERS[CHOOSE n \in 1..Len(ALL_TAMPERS) : ALL_TAMPERS[n].name = name]

\* The chain holds exactly the tampers matching the stage (and the technique
\* when asked) in non-decreasing priority order
InPriorityOrder(names, technique) ==
    /\ \A k \in 1..Len(names) :
          /\ Registered(names[k])
          /\ IF technique THEN Matching(ByName(names[k])) ELSE OfStage(names[k])
    /\ \A j, k \in 1..Len(names) :
          j < k => /\ names[j] # names[k]
                   /\ ByName(names[j]).priority <= ByName(names[k]).priority
    /\ \A n \in 1..Len(ALL_TAMPERS) :
          (IF technique THEN Matching(ALL_TAMPERS[n]) ELSE OfStage(ALL_TAMPERS[n].name))
              => InSeq(ALL_TAMPERS[n].name, names)

\* C35: when the user names registered tampers get_tamper_chain returns
\* exactly those tampers, once each, in the order declared; with no user
\* selection it returns the tampers matching the stage and the technique in
\* non-decreasing priority order.
C35_ExactlyNamed ==
    ChainBuilt =>
        IF tc.user_selected # <<>>
        THEN (\A k \in 1..Len(tc.user_selected) : Registered(tc.user_selected[k]))
                 => ChainNames = tc.user_selected
        ELSE InPriorityOrder(ChainNames, TRUE)

\* Position of the first "all" among the names the user gave, one past the
\* end when there is none
FirstAll ==
    LET at == {k \in 1..Len(tc.user_selected) : Lower(tc.user_selected[k]) = "all"}
    IN  IF at = {} THEN Len(tc.user_selected) + 1 ELSE CHOOSE k \in at : \A j \in at : k <= j

\* C35 amended: when the user names tampers get_tamper_chain returns, in the
\* order declared and as often as named, the named tampers registered for
\* the stage of the call, up to the first name "all", which stands for every
\* tamper of the stage in priority order and ends the selection; with no user
\* selection it returns the tampers matching the stage and the technique in
\* non-decreasing priority order.
C35_NamedOfStage ==
    ChainBuilt =>
        IF tc.user_selected # <<>>
        THEN LET named == SelectSeq(SubSeq(tc.user_selected, 1, FirstAll - 1), OfStage)
                 rest == SubSeq(ChainNames, Len(named) + 1, Len(ChainNames))
             IN  /\ Len(named) <= Len(ChainNames)
                 /\ SubSeq(ChainNames, 1, Len(named)) = named
                 /\ IF FirstAll <= Len(tc.user_selected)
                    THEN InPriorityOrder(rest, FALSE)
                    ELSE rest = <<>>
        ELSE InPriorityOrder(ChainNames, TRUE)

\* C35 witness: two tampers named against their priorities came back in the
\* order declared
C35_Witness ==
    /\ ChainBuilt
    /\ tc.user_selected = <<"randomcase", "charencode">>
    /\ ChainNames = <<"randomcase", "charencode">>

\* C36: every registered tamper is a pure function: two applications to
\* the same payload and context return the same payload, applied list and
\* confidence (or None both times).
C36_TampersPure ==
    (call.entry = "tamper" /\ Len(tm.returned) = 2)
        => tm.returned[1] = tm.returned[2]

\* The call runs with a dump_type and conf.fresh_queries set
FreshCall == FetchCall /\ call.dump_type # NoneV /\ conf.fresh_queries

\* C39: with fresh_queries set fetch_characters neither reads nor writes the
\* storage table: the row stored under the key is the one (or none) that
\* was there when the call started, the result is never a resumed one, and
\* the characters the loop holds were all extracted, from position 1 on.
C39_FreshLeavesStorage ==
    FreshCall =>
        /\ storage = obs.store0
        /\ ~obs.wrote
        /\ ~result.resumed
        /\ pc \in {"loop", "done"} =>
              \A k \in 1..Len(fc.chars) : k \in obs.probed

\* C39 witness: a fresh call that found a row under its key has extracted
\* characters and returned
C39_Witness ==
    /\ FreshCall
    /\ obs.store0.present
    /\ pc = "done" /\ fc.chars # <<>>
    /\ storage = obs.store0

\* C40: whatever the oracle answers, _char_in over a range [min_ord,
\* max_ord] always holds at least one candidate of the range and returns
\* with exactly one, a character of the range and never ""; when every probe
\* is answered false (the character is outside the range, or there is none)
\* it returns chr(max_ord).
C40_InNeverEmpty ==
    call.entry = "in" =>
        /\ Len(srch.candidates) >= 1
        /\ \A k \in 1..Len(srch.candidates) :
              srch.candidates[k] \in srch.min_ord..srch.max_ord
        /\ DirectReturned("in") =>
              /\ Len(srch.candidates) = 1
              /\ ret # 0 /\ ret \in srch.min_ord..srch.max_ord
              /\ (/\ target.mode = "truthful"
                  /\ CharAt(target.value, 1) \notin srch.min_ord..srch.max_ord)
                    => ret = srch.max_ord

\* C40 witness: _char_in over [32,127] returned chr(127) from an endpoint
\* whose value is empty
C40_Witness ==
    /\ DirectReturned("in")
    /\ DefaultRange
    /\ target.mode = "truthful" /\ target.value = <<>>
    /\ ret = MaxOrd

\* Under IN_OPERATOR the character loop of fetch_characters is never left at
\* a failing position: it ends only with its range used up
InLoopNeverBreaks ==
    (FetchCall /\ pc = "done" /\ result.kind = "CharResult"
        /\ result.strategy = "IN_OPERATOR")
        => fc.pos > fc.length

\* The loop run in one piece returns what the loop run probe by probe returns
SummaryAgrees ==
    (pc = "done" /\ call.entry # "fetch_characters" /\ result.kind = "none"
        /\ target.mode = "truthful")
        => ret = SearchResult(RunSearch(NewSearch(srch.fn, srch.subject, srch.offset,
                     srch.min_ord, srch.max_ord, srch.vector_type, 1)))

====
